---------------------------- MODULE Spec2Model ----------------------------
(***************************************************************************)
(* Generator registry of vts-mapproxy (mapproxy/generator/generator.cpp):  *)
(* the serving set, the updater thread that reconciles it with the         *)
(* resource backend, the preparation pool and the registry's query         *)
(* methods.                                                                *)
(***************************************************************************)
EXTENDS Integers, Sequences, FiniteSets, TLC

(***************************************************************************)
(* Bounds of the model.                                                    *)
(***************************************************************************)
\* number of distinct resource ids (reference frame, group, id)
NumIds == 2
\* number of updater passes (calls of resourceBackend_->load()) explored
MaxPasses == 2

(***************************************************************************)
(* Domains.                                                                *)
(***************************************************************************)
\* Resource ids, ordered as Resource::Id::operator< orders them.
Ids == 1..NumIds
\* Ids of the system generators registered by the constructor: one
\* (referenceFrame, Generator::systemGroup(), driver) per system factory.
SysIds == {1}
\* Generator objects (what a Generator::pointer points to): per resource id
\* at most one object in the serving set and one being created or prepared.
GenIds == 1..(2 * NumIds)
\* null Generator::pointer
NoGen == 0

\* Resource::Generator::Type of the resource with the given id
TypeOf(id) == IF id \in SysIds THEN "tms" ELSE "surface"
Types == {"tms", "surface"}

\* Resource definitions <<incompatible part, cache-relevant part, cosmetic
\* part>>.  The backend holds two definitions of a resource, DefBase and
\* one of the other three: each gives one Changed outcome against DefBase.
DefBase == <<0, 0, 0>>
DefCosmetic == <<0, 0, 1>>
DefCache == <<0, 1, 0>>
DefOther == <<1, 0, 0>>
AltDefs == {DefCosmetic, DefCache, DefOther}

\* no resource.json in the generator's root directory
NoFile == [def |-> DefBase, rev |-> -1]

\* Changed: classification of two definitions of the same resource.
Changed(a, b) ==
    IF a[1] # b[1] THEN "yes"
    ELSE IF a[2] # b[2] THEN "withRevisionBump"
    ELSE IF a[3] # b[3] THEN "safely"
    ELSE "no"

Max(a, b) == IF a < b THEN b ELSE a
MinOf(S) == CHOOSE x \in S : \A y \in S : x <= y
Range(s) == {s[i] : i \in DOMAIN s}

VARIABLES
    life,           \* "constructed", "running" (running_ = true), "stopped"
    freeze,         \* config_: generator types whose definitions are frozen
    period,         \* config_.resourceUpdatePeriod (0 stands for <= 0)
    alt,            \* the backend's other definition of a resource
    gens,           \* the generator objects
    serving,        \* serving_
    store,          \* <root>/<rf>/<group>/<id>/resource.json per resource id
    ready,          \* Generators::Detail::ready_
    preparing,      \* preparing_
    tasks,          \* handlers posted to ios_ that have not finished
    errors,         \* resource ids reported to ResourceBackend::error
    failed,         \* generators whose prepare() raised
    ub,             \* serving_.replace() was called with the end iterator
    pc,             \* position of the updater thread
    npass,          \* number of load() calls made
    loaded,         \* the Resource::map update() was called with
    incoming,       \* the range [iresources, eresources) of that map
    si,             \* iserving: the walk has passed the ids below si
    toAdd, toRemove, toReplace,
    outcome,        \* how the last pass ended
    clean,          \* no create() and no prepare() failed in this pass
    updateRequest,  \* updateRequest_
    lastUpdate,     \* lastUpdate_ (number of the pass that set it)
    asked           \* what update() returned to the client that is followed

\* The GDAL worker pool (gdalsupport): worker processes, the request queue
\* and the response map of the shared memory, the calls of the clients.
VARIABLES
    procId,         \* Process::id_ of the Process object of each worker slot
    child,          \* the operating system's state of each child process
    busy,           \* the request each worker process is executing
    queue,          \* request queue in the shared memory
    jobs,           \* in-flight requests by fingerprint, with their waiters
    want,           \* the fingerprint each client waits for
    got,            \* what each client's call received
    execs,          \* executions of an in-flight request started by workers
    served,         \* the worker whose result each client received
    nreq,           \* requests submitted so far
    ncrash,         \* worker deaths so far
    joined          \* outcome of the last Process::join of each slot

poolVars == <<procId, child, busy, queue, jobs, want, got, execs, served,
              nreq, ncrash, joined>>

\* Resource definitions (SurfaceBase::SurfaceDefinition and
\* resource::TmsRasterPatchwork): two definitions of one type, their
\* classification, the JSON value built from the first and the definition
\* parsed back from it, and the generator reopened over the first with the
\* second passed in.
VARIABLES
    defKind,        \* the definition type of the pair
    defX, defY,     \* the stored and the passed definition
    revX, revY,     \* the stored and the passed revision
    cls,            \* defX.changed(defY), defY.changed(defX), defX.changed(defX)
    json,           \* the Json::Value that build fills from defX
    back,           \* the definition parse reads from json
    reopened        \* the Generator constructed over stored defX

defVars == <<defKind, defX, defY, revX, revY, cls, json, back, reopened>>

\* metatileFromDem (generator/metatile.cpp): one call of the function.
VARIABLES
    mblocks,        \* blocks: what metatileBlocks(resource, tileId) returned
    mpc,            \* position of the call
    bi,             \* the block the loop over blocks is at
    tile,           \* the tile of the block the loops over (j, i) are at
    grid,           \* Grid<Sample> grid of the block
    metatile,       \* metatile: how many times each tile's node was set
    node,           \* the vts::MetaNode node of the loop body
    nodeIn,         \* what the loop body read to build node
    sinkAborted     \* the request of the sink is aborted

metaVars ==
    <<mblocks, mpc, bi, tile, grid, metatile, node, nodeIn, sinkAborted>>

\* One Generator object on its own: constructed over a root directory and
\* made ready (Generator::Generator, Generator::makeReady).
VARIABLES
    cparams,        \* Params of the constructor and the resource.json found
    cfile,          \* resource.json in the root directory of the generator
    cgen            \* the Generator object, once constructed

ctorVars == <<cparams, cfile, cgen>>

\* calipers (calipers/main.cpp): one run of the tool.
VARIABLES
    calIn,          \* command line, dataset descriptor, reference frame
    calPc,          \* position of Calipers::run
    dsType,         \* datasetType
    nodeSt,         \* the iterations of the parallel loop over the nodes
    stdout,         \* what was written to std::cout, in order
    exitCode        \* what the process returned

calVars == <<calIn, calPc, dsType, nodeSt, stdout, exitCode>>

\* surface generator (generator/surface.cpp): one file request.
VARIABLES
    surfFi,         \* SurfaceFileInfo of the request
    surfPc,         \* position of the request
    surfSink,       \* what was written to the sink, in order
    surfTask        \* the Task generateFile_impl returned

surfVars == <<surfFi, surfPc, surfSink, surfTask>>

\* The TypeIdx index of serving_ (generator/generator.cpp) and a client
\* that lists the groups.
VARIABLES
    typeIdx,        \* serving_.get<TypeIdx>(), the generators in its order
    listed          \* what the last call of listGroups returned

idxVars == <<typeIdx, listed>>

\* the state of the components the registry never touches
elsewhere == <<poolVars, defVars, metaVars, ctorVars, calVars, surfVars, idxVars>>

\* config_ (set at construction, read only afterwards) and, with it, all
\* that no operation of the registry changes
cfgVars == <<freeze, period, alt, elsewhere>>

\* the variables of the registry
regVars == <<life, freeze, period, alt, gens, serving, store, ready,
             preparing, tasks, errors, failed, ub, pc, npass, loaded,
             incoming, si, toAdd, toRemove, toReplace, outcome, clean,
             updateRequest, lastUpdate, asked>>
prepVars == <<preparing, tasks, errors, failed>>
walkVars == <<loaded, incoming, si, toAdd, toRemove, toReplace>>

vars == <<life, cfgVars, gens, serving, store, ready, prepVars, ub, pc,
          npass, walkVars, outcome, clean, updateRequest, lastUpdate,
          asked>>

\* boost::none, and an optional that holds v
None == <<>>
Some(v) == <<v>>

\* no definitions under examination
DefParked ==
    /\ defKind = "none"
    /\ defX = None
    /\ defY = None
    /\ revX = 0
    /\ revY = 0
    /\ cls = None
    /\ json = None
    /\ back = None
    /\ reopened = None

\* calipers is not run
CalParked ==
    /\ calIn = None
    /\ calPc = "off"
    /\ dsType = None
    /\ nodeSt = <<>>
    /\ stdout = <<>>
    /\ exitCode = None

\* the TypeIdx index is not looked at
IdxParked ==
    /\ typeIdx = <<>>
    /\ listed = None

\* no file request under examination
SurfParked ==
    /\ surfFi = None
    /\ surfPc = "off"
    /\ surfSink = <<>>
    /\ surfTask = None

\* no Generator is constructed on its own
CtorParked ==
    /\ cparams = None
    /\ cfile = None
    /\ cgen = None

\* metatileFromDem is not being called
MetaParked ==
    /\ mblocks = <<>>
    /\ mpc = "off"
    /\ bi = 0
    /\ tile = 0
    /\ grid = <<>>
    /\ metatile = <<>>
    /\ node = None
    /\ nodeIn = None
    /\ sinkAborted = FALSE

(***************************************************************************)
(* Domains of the GDAL worker pool.                                        *)
(***************************************************************************)
\* worker processes the pool keeps alive
NumWorkers == 2
\* distinct request fingerprints
NumFps == 2
\* client threads calling the pool
NumCallers == 2
\* requests submitted in one run
MaxRequests == 3
\* worker deaths in one run
MaxCrashes == 2

Workers == 1..NumWorkers
Fps == 1..NumFps
Callers == 1..NumCallers
\* process ids the operating system hands out to the forked workers
Pids == 1..(NumWorkers + MaxCrashes)
\* ::getpid() of the server, the parent of the workers
ParentPid == NumWorkers + MaxCrashes + 1
\* no request
NoFp == 0
\* no in-flight request with this fingerprint
NoJob == [state |-> "none", waiters |-> {}]

\* the pool before it is created
PoolParked ==
    /\ procId = [w \in Workers |-> 0]
    /\ child = [p \in Pids |-> "unborn"]
    /\ busy = [p \in Pids |-> NoFp]
    /\ queue = <<>>
    /\ jobs = [f \in Fps |-> NoJob]
    /\ want = [c \in Callers |-> NoFp]
    /\ got = [c \in Callers |-> "none"]
    /\ execs = [f \in Fps |-> 0]
    /\ served = [c \in Callers |-> 0]
    /\ nreq = 0
    /\ ncrash = 0
    /\ joined = [w \in Workers |-> "none"]

running == life = "running"

\* no generator object
Unborn == [id |-> 0, def |-> DefBase, rev |-> 0, system |-> FALSE,
           ready |-> FALSE, replace |-> NoGen, fresh |-> FALSE,
           changeEnforced |-> FALSE]

(***************************************************************************)
(* Generator                                                               *)
(***************************************************************************)

\* Generator::Generator keeping the revision passed in: the revision of
\* the stored resource.json is not merged
GeneratorCtorNoMerge(res, system, replace, file) ==
    LET chg == Changed(file.def, res.def)
        reopen == ~(file = NoFile \/ system)
        frozen == reopen /\ chg = "yes" /\ TypeOf(res.id) \in freeze
        bump == reopen /\ ~frozen /\ chg \in {"withRevisionBump", "yes"}
    IN  [id |-> res.id,
         def |-> IF frozen THEN file.def ELSE res.def,
         rev |-> IF bump THEN res.rev + 1 ELSE res.rev,
         system |-> system, ready |-> FALSE, replace |-> replace,
         fresh |-> ~reopen, changeEnforced |-> bump]

\* Generator::Generator: the generator object built for resource res
\* (id, def, rev) over the stored resource.json file.
GeneratorCtor(res, system, replace, file) ==
    IF file = NoFile \/ system
    THEN [id |-> res.id, def |-> res.def, rev |-> res.rev,
          system |-> system, ready |-> FALSE, replace |-> replace,
          fresh |-> TRUE, changeEnforced |-> FALSE]
    ELSE LET rev == Max(res.rev, file.rev)
             chg == Changed(file.def, res.def)
         IN  CASE chg = "withRevisionBump" ->
                    [id |-> res.id, def |-> res.def, rev |-> rev + 1,
                     system |-> system, ready |-> FALSE,
                     replace |-> replace, fresh |-> FALSE,
                     changeEnforced |-> TRUE]
               [] chg \in {"no", "safely"} ->
                    [id |-> res.id, def |-> res.def, rev |-> rev,
                     system |-> system, ready |-> FALSE,
                     replace |-> replace, fresh |-> FALSE,
                     changeEnforced |-> FALSE]
               [] chg = "yes" /\ TypeOf(res.id) \in freeze ->
                    [id |-> res.id, def |-> file.def, rev |-> rev,
                     system |-> system, ready |-> FALSE,
                     replace |-> replace, fresh |-> FALSE,
                     changeEnforced |-> FALSE]
               [] OTHER ->
                    [id |-> res.id, def |-> res.def, rev |-> rev + 1,
                     system |-> system, ready |-> FALSE,
                     replace |-> replace, fresh |-> FALSE,
                     changeEnforced |-> TRUE]

\* resource.json as the constructor leaves it: re-saved at once when the
\* change is no, safely or withRevisionBump.
CtorFile(res, system, file) ==
    IF file = NoFile \/ system THEN file
    ELSE LET g == GeneratorCtor(res, system, NoGen, file)
         IN  IF Changed(file.def, res.def) \in
                    {"no", "safely", "withRevisionBump"}
             THEN [def |-> g.def, rev |-> g.rev]
             ELSE file

\* Generator::makeReady
MakeReady(g) == [g EXCEPT !.ready = TRUE, !.changeEnforced = FALSE]

MakeReadyFile(g, file) ==
    IF g.fresh \/ g.changeEnforced THEN [def |-> g.def, rev |-> g.rev]
    ELSE file

\* Generator::changed(resource): resource.changed(resource_)
GeneratorChanged(g, res) == Changed(res.def, g.def)

(***************************************************************************)
(* GeneratorMap: boost::multi_index_container with a unique index on the   *)
(* pointer and a unique index on the resource id.                          *)
(***************************************************************************)
IdOf(g) == gens[g].id

\* serving_.insert(g): refused when a unique index already holds the key
ServingInsert(S, g) ==
    IF \E h \in S : h = g \/ IdOf(h) = IdOf(g) THEN S ELSE S \cup {g}

\* serving_.erase(g)
ServingErase(S, g) == S \ {g}

\* faulty variant: the replacement is added and the original left in place
ServingReplaceKeep(S, original, replacement) == S \cup {replacement}

\* serving_.replace(serving_.find(original), replacement), original in S:
\* the slot takes the replacement unless another element holds its key
ServingReplace(S, original, replacement) ==
    IF \E h \in S \ {original} :
            h = replacement \/ IdOf(h) = IdOf(replacement)
    THEN S
    ELSE (S \ {original}) \cup {replacement}

\* idx.find(resourceId) in the ResourceIdIdx index
FindById(id) ==
    IF \E g \in serving : IdOf(g) = id
    THEN CHOOSE g \in serving : IdOf(g) = id
    ELSE NoGen

\* The objects some Generator::pointer still leads to: those in serving_,
\* in a posted handler, in the lists of update(), and the original a
\* generator still to be swapped in holds in replace_.
Pointers(sv, tk, a, r, x, gs) ==
    (sv \cup tk \cup Range(a) \cup Range(r) \cup Range(x)
        \cup {gs[g].replace : g \in tk \cup Range(x)}) \ {NoGen}

\* Objects no pointer leads to are destroyed; replace_ is read for the
\* last time when the generator is swapped in, and is dropped then.
Sweep(gs, live, pending) ==
    [g \in GenIds |->
        IF g \notin live THEN Unborn
        ELSE IF g \in pending THEN gs[g]
        ELSE [gs[g] EXCEPT !.replace = NoGen]]

\* the object a newly created generator gets
FreeGens == {g \in GenIds : gens[g] = Unborn}

\* gens and failed after a step that left rawGens and rawFailed: the
\* objects the step released are destroyed
Collect(rawGens, rawFailed) ==
    LET live == Pointers(serving', tasks', toAdd', toRemove', toReplace',
                         rawGens)
    IN  /\ gens' = Sweep(rawGens, live, tasks' \cup Range(toReplace'))
        /\ failed' = rawFailed \cap live

(***************************************************************************)
(* Construction                                                            *)
(***************************************************************************)

\* the resource of a system generator, built by registerSystemGenerators
SystemResource(id) == [id |-> id, def |-> DefBase, rev |-> 0]

\* Generators::Detail::Detail and registerSystemGenerators: each system
\* generator is created, inserted and, when its constructor did not make
\* it ready, posted for preparation.  The store may hold the resource.json
\* files an earlier run of the server left.
Init ==
    /\ life = "constructed"
    /\ freeze \in {{}, Types}
    /\ period \in {0, 1}
    /\ alt \in AltDefs
    /\ \E readyAtCtor \in SUBSET SysIds :
         /\ gens = [g \in GenIds |->
                      IF g \in SysIds
                      THEN LET c == GeneratorCtor(SystemResource(g), TRUE,
                                                  NoGen, NoFile)
                           IN  IF g \in readyAtCtor THEN MakeReady(c) ELSE c
                      ELSE Unborn]
         /\ \E kept \in SUBSET (Ids \ SysIds) :
              store = [i \in Ids |->
                         IF i \in readyAtCtor \cup kept
                         THEN [def |-> DefBase, rev |-> 0] ELSE NoFile]
         /\ tasks = SysIds \ readyAtCtor
         /\ preparing = Cardinality(SysIds \ readyAtCtor)
    /\ serving = SysIds
    /\ ready = FALSE
    /\ errors = {}
    /\ failed = {}
    /\ ub = FALSE
    /\ pc = "off"
    /\ npass = 0
    /\ loaded = <<>>
    /\ incoming = <<>>
    /\ si = 1
    /\ toAdd = <<>>
    /\ toRemove = <<>>
    /\ toReplace = <<>>
    /\ outcome = "none"
    /\ clean = TRUE
    /\ updateRequest = FALSE
    /\ lastUpdate = 0
    /\ asked = None
    /\ PoolParked
    /\ DefParked
    /\ MetaParked
    /\ CtorParked
    /\ CalParked
    /\ SurfParked
    /\ IdxParked

(***************************************************************************)
(* Lifecycle                                                               *)
(***************************************************************************)

\* Generators::Detail::start: running_ = true, the updater thread (which
\* first clears updateRequest_ and lastUpdate_) and the workers start.
Start ==
    /\ life = "constructed"
    /\ life' = "running"
    /\ pc' = "load"
    /\ updateRequest' = FALSE
    /\ lastUpdate' = 0
    /\ UNCHANGED <<cfgVars, asked, gens, serving, store, ready, prepVars, ub, npass,
                   walkVars, outcome, clean>>

\* Generators::Detail::stop: running_ = false, ios_.stop(), notify_all()
Stop ==
    /\ life = "running"
    /\ life' = "stopped"
    /\ pc' = IF pc = "blocked" THEN "pred" ELSE pc
    /\ UNCHANGED <<cfgVars, asked, gens, serving, store, ready, prepVars, ub, npass,
                   walkVars, outcome, clean, updateRequest, lastUpdate>>

\* Generators::Detail::update(): updateRequest_ = true, notify_one()
RequestUpdate ==
    /\ updateRequest' = TRUE
    /\ pc' = IF pc = "blocked" THEN "pred" ELSE pc
    /\ UNCHANGED <<life, cfgVars, asked, gens, serving, store, ready, prepVars, ub,
                   npass, walkVars, outcome, clean, lastUpdate>>

(***************************************************************************)
(* Preparation pool                                                        *)
(***************************************************************************)

\* Generators::Detail::replace(original, replacement), under lock_.  When
\* the original is no longer in the serving set, find() yields end() and
\* serving_.replace(end(), ...) is undefined: the set is left alone or
\* gains the replacement (a crash is the behaviour that stops here).
Replace(original, replacement) ==
    IF original \in serving
    THEN /\ serving' = ServingReplace(serving, original, replacement)
         /\ ub' = ub
    ELSE /\ serving' \in {serving, ServingInsert(serving, replacement)}
         /\ ub' = TRUE

\* Generators::Detail::prepare(generator): ++preparing_; ios_.post(...)
Post(g) ==
    /\ preparing' = preparing + 1
    /\ tasks' = tasks \cup {g}

\* The posted handler, prepare() succeeding: the generator is made ready
\* (makeReady() ends prepare_impl), a replacement takes the slot of its
\* original, --preparing_.  Workers exist once start() has run.
PrepareOk(g) ==
    /\ life # "constructed"
    /\ g \in tasks
    /\ store' = [store EXCEPT ![IdOf(g)] = MakeReadyFile(gens[g], @)]
    /\ IF gens[g].replace # NoGen
       THEN Replace(gens[g].replace, g)
       ELSE UNCHANGED <<serving, ub>>
    /\ tasks' = tasks \ {g}
    /\ preparing' = preparing - 1
    /\ UNCHANGED <<life, cfgVars, asked, ready, errors, pc, npass, walkVars,
                   outcome, clean, updateRequest, lastUpdate>>
    /\ Collect([gens EXCEPT ![g] = MakeReady(gens[g])], failed)

\* faulty variant: the failed generator is reported and left in the set
PrepareFailKeep(g) ==
    /\ life # "constructed"
    /\ g \in tasks
    /\ errors' = errors \cup {IdOf(g)}
    /\ tasks' = tasks \ {g}
    /\ preparing' = preparing - 1
    /\ clean' = (clean /\ outcome # "running")
    /\ UNCHANGED <<life, cfgVars, asked, serving, store, ready, ub, pc, npass,
                   walkVars, outcome, updateRequest, lastUpdate>>
    /\ Collect(gens, failed \cup {g})

\* faulty variant: the original of a failed replacement is erased with it
PrepareFailErasesOriginal(g) ==
    /\ life # "constructed"
    /\ g \in tasks
    /\ errors' = errors \cup {IdOf(g)}
    /\ serving' = ServingErase(ServingErase(serving, g), gens[g].replace)
    /\ tasks' = tasks \ {g}
    /\ preparing' = preparing - 1
    /\ clean' = (clean /\ outcome # "running")
    /\ UNCHANGED <<life, cfgVars, asked, store, ready, ub, pc, npass, walkVars,
                   outcome, updateRequest, lastUpdate>>
    /\ Collect(gens, failed \cup {g})

\* The posted handler, prepare() raising: the error is reported to the
\* resource backend, the generator is erased under lock_, --preparing_.
PrepareFail(g) ==
    /\ life # "constructed"
    /\ g \in tasks
    /\ errors' = errors \cup {IdOf(g)}
    /\ serving' = ServingErase(serving, g)
    /\ tasks' = tasks \ {g}
    /\ preparing' = preparing - 1
    /\ clean' = (clean /\ outcome # "running")
    /\ UNCHANGED <<life, cfgVars, asked, store, ready, ub, pc, npass, walkVars,
                   outcome, updateRequest, lastUpdate>>
    /\ Collect(gens, failed \cup {g})

(***************************************************************************)
(* Updater thread                                                          *)
(***************************************************************************)

\* while (running_) is false: the thread ends
UpdaterExit ==
    /\ pc = "load"
    /\ ~running
    /\ pc' = "done"
    /\ UNCHANGED <<life, cfgVars, asked, gens, serving, store, ready, prepVars, ub,
                   npass, walkVars, outcome, clean, updateRequest, lastUpdate>>

\* faulty variant: a pass whose load() failed publishes the ready flag
LoadFailPublishes ==
    /\ pc = "load"
    /\ running
    /\ npass < MaxPasses
    /\ npass' = npass + 1
    /\ outcome' = "failed"
    /\ ready' = TRUE
    /\ pc' = "pred"
    /\ UNCHANGED <<life, cfgVars, asked, gens, serving, store, prepVars, ub,
                   walkVars, clean, updateRequest, lastUpdate>>

\* resourceBackend_->load() throws: the pass ends, nothing is set
LoadFail ==
    /\ pc = "load"
    /\ running
    /\ npass < MaxPasses
    /\ npass' = npass + 1
    /\ outcome' = "failed"
    /\ pc' = "pred"
    /\ UNCHANGED <<life, cfgVars, asked, gens, serving, store, ready, prepVars, ub,
                   walkVars, clean, updateRequest, lastUpdate>>

\* resourceBackend_->load() returns a resource map; update() starts its
\* merge-walk at the beginning of both sequences
LoadOk ==
    /\ pc = "load"
    /\ running
    /\ npass < MaxPasses
    /\ npass' = npass + 1
    /\ \E S \in SUBSET Ids : \E m \in [S -> {DefBase, alt}] :
         /\ incoming' = [i \in S |-> [id |-> i, def |-> m[i], rev |-> 0]]
         /\ loaded' = incoming'
    /\ si' = 1
    /\ toAdd' = <<>>
    /\ toRemove' = <<>>
    /\ toReplace' = <<>>
    /\ outcome' = "running"
    /\ clean' = TRUE
    /\ pc' = "walk"
    /\ UNCHANGED <<life, cfgVars, asked, gens, serving, store, ready, prepVars, ub,
                   updateRequest, lastUpdate>>

\* eresources / eserving
End == NumIds + 1
\* what is left of the serving sequence
SrvLeft == {g \in serving : IdOf(g) >= si}
\* iresources->first and (*iserving)->id(), End at the end
CurRes == IF DOMAIN incoming = {} THEN End ELSE MinOf(DOMAIN incoming)
CurSrvId == IF SrvLeft = {} THEN End ELSE MinOf({IdOf(g) : g \in SrvLeft})
\* *iserving
CurSrv == IF SrvLeft = {} THEN NoGen
          ELSE CHOOSE g \in SrvLeft : IdOf(g) = CurSrvId
\* ++iresources
NextRes == [i \in DOMAIN incoming \ {CurRes} |-> incoming[i]]

\* the walk is at a resource that is not served
AtNew == CurRes # End /\ (CurSrvId = End \/ CurRes < CurSrvId)
\* the walk is at a generator whose resource is gone
AtRemoved == CurSrvId # End /\ (CurRes = End \/ CurSrvId < CurRes)
\* the walk is at a resource that is served
AtExisting == CurRes # End /\ CurSrvId # End /\ CurRes = CurSrvId

\* faulty variant: the freeze set is not consulted
WantsReplaceAlways ==
    IF AtExisting
    THEN GeneratorChanged(gens[CurSrv], incoming[CurRes]) # "no"
    ELSE FALSE

\* the existing-resource branch calls the replace lambda
WantsReplace ==
    LET chg == IF AtExisting
               THEN GeneratorChanged(gens[CurSrv], incoming[CurRes])
               ELSE "no"
    IN  \/ chg \in {"safely", "withRevisionBump"}
        \/ chg = "yes" /\ TypeOf(CurRes) \notin freeze

\* faulty variant: a create() that throws empties the list of the lambda
CreateFailDropsList(res, original, list, list2) ==
    \/ /\ clean' = FALSE
       /\ list' = <<>>
       /\ UNCHANGED <<gens, store, list2>>
    \/ /\ FreeGens # {}
       /\ gens' = [gens EXCEPT ![MinOf(FreeGens)] =
                       GeneratorCtor(res, FALSE, original, store[res.id])]
       /\ store' = [store EXCEPT ![res.id] =
                       CtorFile(res, FALSE, store[res.id])]
       /\ list' = Append(list, MinOf(FreeGens))
       /\ UNCHANGED <<clean, list2>>

\* Generator::create(params) inside the add and replace lambdas: it
\* throws (logged, the resource is skipped) or yields a generator that its
\* constructor may already have made ready
Create(res, original, list, list2) ==
    \/ /\ clean' = FALSE
       /\ UNCHANGED <<gens, store, list, list2>>
    \/ /\ FreeGens # {}
       /\ \E readyAtCtor \in BOOLEAN :
            LET c == GeneratorCtor(res, FALSE, original, store[res.id])
                f == CtorFile(res, FALSE, store[res.id])
            IN  /\ gens' = [gens EXCEPT ![MinOf(FreeGens)] =
                                IF readyAtCtor THEN MakeReady(c) ELSE c]
                /\ store' = [store EXCEPT ![res.id] =
                                IF readyAtCtor THEN MakeReadyFile(c, f)
                                ELSE f]
       /\ list' = Append(list, MinOf(FreeGens))
       /\ UNCHANGED <<clean, list2>>

\* add(resource) in the main loop and in the tail loop
WalkNew ==
    /\ pc = "walk"
    /\ AtNew
    /\ running
    /\ Create(incoming[CurRes], NoGen, toAdd, toReplace)
    /\ incoming' = NextRes
    /\ UNCHANGED <<life, cfgVars, asked, serving, ready, prepVars, ub, pc, npass,
                   loaded, si, toRemove, outcome, updateRequest, lastUpdate>>

\* faulty variant: system generators are listed for removal too
WalkRemovedAll ==
    /\ pc = "walk"
    /\ AtRemoved
    /\ toRemove' = Append(toRemove, CurSrv)
    /\ si' = CurSrvId + 1
    /\ UNCHANGED <<life, cfgVars, asked, gens, serving, store, ready, prepVars, ub,
                   pc, npass, loaded, incoming, toAdd, toReplace, outcome,
                   clean, updateRequest, lastUpdate>>

\* removed resource in the main loop and in the tail loop
WalkRemoved ==
    /\ pc = "walk"
    /\ AtRemoved
    /\ toRemove' = IF gens[CurSrv].system THEN toRemove
                   ELSE Append(toRemove, CurSrv)
    /\ si' = CurSrvId + 1
    /\ UNCHANGED <<life, cfgVars, asked, gens, serving, store, ready, prepVars, ub,
                   pc, npass, loaded, incoming, toAdd, toReplace, outcome,
                   clean, updateRequest, lastUpdate>>

\* existing resource: switch on (*iserving)->changed(resource)
WalkExisting ==
    /\ pc = "walk"
    /\ AtExisting
    /\ IF WantsReplace
       THEN /\ running
            /\ Create(incoming[CurRes], CurSrv, toReplace, toAdd)
       ELSE UNCHANGED <<gens, store, toAdd, toReplace, clean>>
    /\ incoming' = NextRes
    /\ si' = CurSrvId + 1
    /\ UNCHANGED <<life, cfgVars, asked, serving, ready, prepVars, ub, pc, npass,
                   loaded, toRemove, outcome, updateRequest, lastUpdate>>

\* faulty variant: the catch of Aborted falls into the statement that sets
\* lastUpdate_
WalkAbortedStamped ==
    /\ pc = "walk"
    /\ ~running
    /\ AtNew \/ (AtExisting /\ WantsReplace)
    /\ outcome' = "aborted"
    /\ lastUpdate' = npass
    /\ toAdd' = <<>>
    /\ toRemove' = <<>>
    /\ toReplace' = <<>>
    /\ incoming' = <<>>
    /\ loaded' = <<>>
    /\ si' = 1
    /\ clean' = TRUE
    /\ pc' = "pred"
    /\ UNCHANGED <<life, cfgVars, asked, serving, store, ready, preparing, tasks,
                   errors, ub, npass, updateRequest>>
    /\ Collect(gens, failed)

\* the add or replace lambda finds running_ false and throws Aborted,
\* which updater() catches: lastUpdate_ is not set
WalkAborted ==
    /\ pc = "walk"
    /\ ~running
    /\ AtNew \/ (AtExisting /\ WantsReplace)
    /\ outcome' = "aborted"
    /\ toAdd' = <<>>
    /\ toRemove' = <<>>
    /\ toReplace' = <<>>
    /\ incoming' = <<>>
    /\ loaded' = <<>>
    /\ si' = 1
    /\ clean' = TRUE
    /\ pc' = "pred"
    /\ UNCHANGED <<life, cfgVars, asked, serving, store, ready, preparing, tasks,
                   errors, ub, npass, updateRequest, lastUpdate>>
    /\ Collect(gens, failed)

\* both sequences are exhausted
WalkDone ==
    /\ pc = "walk"
    /\ CurRes = End
    /\ CurSrvId = End
    /\ pc' = "add"
    /\ UNCHANGED <<life, cfgVars, asked, gens, serving, store, ready, prepVars, ub,
                   npass, walkVars, outcome, clean, updateRequest, lastUpdate>>

\* faulty variant: added generators are inserted and never prepared
AddStepNoPrepare ==
    /\ pc = "add"
    /\ IF toAdd = <<>>
       THEN /\ pc' = "remove"
            /\ UNCHANGED <<serving, toAdd>>
       ELSE /\ serving' = ServingInsert(serving, Head(toAdd))
            /\ toAdd' = Tail(toAdd)
            /\ pc' = pc
    /\ UNCHANGED <<life, cfgVars, asked, store, ready, preparing, tasks, errors, ub,
                   npass, loaded, incoming, si, toRemove, toReplace, outcome,
                   clean, updateRequest, lastUpdate>>
    /\ Collect(gens, failed)

\* "add stuff": insert under lock_, then prepare unless already ready
AddStep ==
    /\ pc = "add"
    /\ IF toAdd = <<>>
       THEN /\ pc' = "remove"
            /\ UNCHANGED <<serving, preparing, tasks, toAdd>>
       ELSE LET g == Head(toAdd)
            IN  /\ serving' = ServingInsert(serving, g)
                /\ IF gens[g].ready
                   THEN UNCHANGED <<preparing, tasks>>
                   ELSE Post(g)
                /\ toAdd' = Tail(toAdd)
                /\ pc' = pc
    /\ UNCHANGED <<life, cfgVars, asked, store, ready, errors, ub, npass, loaded,
                   incoming, si, toRemove, toReplace, outcome, clean,
                   updateRequest, lastUpdate>>
    /\ Collect(gens, failed)

\* "remove stuff": erase under lock_
RemoveStep ==
    /\ pc = "remove"
    /\ IF toRemove = <<>>
       THEN /\ pc' = "replace"
            /\ UNCHANGED <<serving, toRemove>>
       ELSE /\ serving' = ServingErase(serving, Head(toRemove))
            /\ toRemove' = Tail(toRemove)
            /\ pc' = pc
    /\ UNCHANGED <<life, cfgVars, asked, store, ready, preparing, tasks, errors, ub,
                   npass, loaded, incoming, si, toAdd, toReplace, outcome,
                   clean, updateRequest, lastUpdate>>
    /\ Collect(gens, failed)

\* "replace stuff": prepare the replacement, or swap at once when its
\* constructor made it ready
ReplaceStep ==
    /\ pc = "replace"
    /\ IF toReplace = <<>>
       THEN /\ pc' = "publish"
            /\ UNCHANGED <<serving, ub, preparing, tasks, toReplace>>
       ELSE LET g == Head(toReplace)
            IN  /\ IF gens[g].ready
                   THEN /\ Replace(gens[g].replace, g)
                        /\ UNCHANGED <<preparing, tasks>>
                   ELSE /\ Post(g)
                        /\ UNCHANGED <<serving, ub>>
                /\ toReplace' = Tail(toReplace)
                /\ pc' = pc
    /\ UNCHANGED <<life, cfgVars, asked, store, ready, errors, npass, loaded,
                   incoming, si, toAdd, toRemove, outcome, clean,
                   updateRequest, lastUpdate>>
    /\ Collect(gens, failed)

\* if (!ready_) ready_ = true
Publish ==
    /\ pc = "publish"
    /\ ready' = TRUE
    /\ pc' = "drain"
    /\ UNCHANGED <<life, cfgVars, asked, gens, serving, store, prepVars, ub, npass,
                   walkVars, outcome, clean, updateRequest, lastUpdate>>

\* faulty variant: update() returns without waiting for the preparations
DrainNoWait ==
    /\ pc = "drain"
    /\ outcome' = "returned"
    /\ lastUpdate' = npass
    /\ loaded' = <<>>
    /\ si' = 1
    /\ clean' = TRUE
    /\ pc' = "pred"
    /\ UNCHANGED <<life, cfgVars, asked, gens, serving, store, ready, prepVars, ub,
                   npass, incoming, toAdd, toRemove, toReplace,
                   updateRequest>>

\* while (preparing_ && running_) sleep; update() returns and updater()
\* sets lastUpdate_
Drain ==
    /\ pc = "drain"
    /\ preparing = 0 \/ ~running
    /\ outcome' = "returned"
    /\ lastUpdate' = npass
    /\ loaded' = <<>>
    /\ si' = 1
    /\ clean' = TRUE
    /\ pc' = "pred"
    /\ UNCHANGED <<life, cfgVars, asked, gens, serving, store, ready, prepVars, ub,
                   npass, incoming, toAdd, toRemove, toReplace,
                   updateRequest>>

\* the wait predicate, evaluated under updaterLock_: it consumes the
\* update request; the wait ends when it holds, else the thread blocks
Pred ==
    /\ pc = "pred"
    /\ updateRequest' = FALSE
    /\ pc' = IF ~running \/ updateRequest THEN "load" ELSE "sleep"
    /\ UNCHANGED <<life, cfgVars, asked, gens, serving, store, ready, prepVars, ub,
                   npass, walkVars, outcome, clean, lastUpdate>>

\* the predicate was false: the thread blocks on updaterCond_
Block ==
    /\ pc = "sleep"
    /\ pc' = "blocked"
    /\ UNCHANGED <<life, cfgVars, asked, gens, serving, store, ready, prepVars, ub,
                   npass, walkVars, outcome, clean, updateRequest, lastUpdate>>

\* faulty variant: the untimed wait ends by itself as the timed one does
TimeoutAnyPeriod ==
    /\ pc = "blocked"
    /\ updateRequest' = FALSE
    /\ pc' = "load"
    /\ UNCHANGED <<life, cfgVars, asked, gens, serving, store, ready, prepVars, ub,
                   npass, walkVars, outcome, clean, lastUpdate>>

\* wait_for() times out (period > 0): the predicate is evaluated once
\* more and the wait ends whatever it says
Timeout ==
    /\ pc = "blocked"
    /\ period > 0
    /\ updateRequest' = FALSE
    /\ pc' = "load"
    /\ UNCHANGED <<life, cfgVars, asked, gens, serving, store, ready, prepVars, ub,
                   npass, walkVars, outcome, clean, lastUpdate>>

\* the condition variable wakes up without a notification
SpuriousWakeup ==
    /\ pc = "blocked"
    /\ pc' = "pred"
    /\ UNCHANGED <<life, cfgVars, asked, gens, serving, store, ready, prepVars, ub,
                   npass, walkVars, outcome, clean, updateRequest, lastUpdate>>

\* Generators::update() called while the updater is between passes (the
\* flag is read by the wait predicate only)
RequestUpdateIdle ==
    /\ pc \in {"pred", "sleep", "blocked"}
    /\ RequestUpdate

\* Generators::update() called while a pass of the updater is under way:
\* the flag stays set until the wait predicate that follows the pass
RequestUpdateBusy ==
    /\ running
    /\ pc \notin {"pred", "sleep", "blocked"}
    /\ RequestUpdate

Next ==
    \/ Start
    \/ Stop
    \/ RequestUpdateIdle
    \/ RequestUpdateBusy
    \/ \E g \in GenIds : PrepareOk(g)
    \/ \E g \in GenIds : PrepareFail(g)
    \/ UpdaterExit
    \/ LoadFail
    \/ LoadOk
    \/ WalkNew
    \/ WalkRemoved
    \/ WalkExisting
    \/ WalkAborted
    \/ WalkDone
    \/ AddStep
    \/ RemoveStep
    \/ ReplaceStep
    \/ Publish
    \/ Drain
    \/ Pred
    \/ Block
    \/ Timeout
    \/ SpuriousWakeup

Spec == Init /\ [][Next]_vars

\* the steps of the updater thread that the scheduler and the clock
\* guarantee: every step but a spurious wake-up of the condition variable
UpdaterRun ==
    \/ UpdaterExit \/ LoadFail \/ LoadOk
    \/ WalkNew \/ WalkRemoved \/ WalkExisting \/ WalkAborted \/ WalkDone
    \/ AddStep \/ RemoveStep \/ ReplaceStep \/ Publish \/ Drain
    \/ Pred \/ Block \/ Timeout

\* the worker threads run every posted handler to its end
WorkerRun(g) == PrepareOk(g) \/ PrepareFail(g)

\* The threads of a started registry keep running; nothing obliges a
\* client to call update() or stop().
LiveSpec ==
    /\ Init /\ [][Next]_vars
    /\ WF_vars(UpdaterRun)
    /\ \A g \in GenIds : WF_vars(WorkerRun(g))

TypeOK ==
    /\ serving \subseteq GenIds
    /\ tasks \subseteq GenIds
    /\ preparing \in Int
    /\ \A g \in serving \cup tasks : gens[g] # Unborn

(***************************************************************************)
(* Query methods of the registry.  They read the state and change nothing; *)
(* each is the outcome of one call: the exception thrown ("none" when the  *)
(* call returns) and the value returned.  All resources of the model are   *)
(* of one reference frame.                                                 *)
(***************************************************************************)

\* Resource::Id::group of the resource with the given id
GroupOf(id) == IF id \in SysIds THEN "system" ELSE "group"
Groups == {"system", "group"}

Returned(v) == [thrown |-> "none", value |-> v]
Thrown(e, v) == [thrown |-> e, value |-> v]

\* Generators::Detail::checkReady passes
checkReady == ready

\* faulty variant: generator() without checkReady()
generatorUngated(generatorType, resourceId) ==
    LET g == FindById(resourceId)
    IN  IF g = NoGen THEN Returned(NoGen)
        ELSE IF generatorType # TypeOf(IdOf(g)) THEN Returned(NoGen)
        ELSE Returned(g)

\* Generators::Detail::generator(generatorType, resourceId)
generator(generatorType, resourceId) ==
    IF ~checkReady THEN Thrown("Unavailable", NoGen)
    ELSE LET g == FindById(resourceId)
         IN  IF g = NoGen THEN Returned(NoGen)
             ELSE IF generatorType # TypeOf(IdOf(g)) THEN Returned(NoGen)
             ELSE Returned(g)

\* faulty variant: findGenerator_impl() without the test of ready()
findGeneratorUnfiltered(generatorType, resourceId) ==
    generator(generatorType, resourceId)

\* Generators::Detail::findGenerator_impl(generatorType, resourceId)
findGenerator_impl(generatorType, resourceId) ==
    LET r == generator(generatorType, resourceId)
    IN  IF r.thrown # "none" THEN r
        ELSE IF r.value = NoGen \/ ~gens[r.value].ready THEN Returned(NoGen)
        ELSE r

\* Generators::Detail::referenceFrame(referenceFrame)
referenceFrame ==
    IF ~checkReady THEN Thrown("Unavailable", {})
    ELSE Returned({g \in serving : gens[g].ready})

\* Generators::Detail::listGroups(referenceFrame, type): the groups named
\* in the result
listGroups(type) ==
    IF ~checkReady THEN Thrown("Unavailable", {})
    ELSE Returned({GroupOf(IdOf(g)) :
                     g \in {h \in serving : TypeOf(IdOf(h)) = type}})

\* Generators::Detail::listIds(referenceFrame, type, group)
listIds(type, group) ==
    IF ~checkReady THEN Thrown("Unavailable", {})
    ELSE Returned({IdOf(g) :
                     g \in {h \in serving : /\ TypeOf(IdOf(h)) = type
                                            /\ GroupOf(IdOf(h)) = group}})

\* Generators::Detail::has(resourceId)
has(resourceId) == Returned(FindById(resourceId) # NoGen)

\* Generators::Detail::isReady(resourceId)
isReady(resourceId) ==
    LET g == FindById(resourceId)
    IN  IF g = NoGen THEN Returned(FALSE) ELSE Returned(gens[g].ready)

\* Generators::Detail::url(resourceId): the generator whose url is returned
url(resourceId) ==
    LET g == FindById(resourceId)
    IN  IF g = NoGen THEN Thrown("UnknownGenerator", NoGen) ELSE Returned(g)

\* Generators::Detail::updatedSince(timestamp), in pass numbers
updatedSince(timestamp) == Returned(lastUpdate > timestamp)

\* Generators::Detail::updatedSince(resourceId, 0, nothrow): readySince_
\* is zero until makeReady() sets it
updatedSinceId(resourceId, nothrow) ==
    LET g == FindById(resourceId)
    IN  IF g = NoGen
        THEN IF nothrow THEN Returned(FALSE)
             ELSE Thrown("UnknownGenerator", FALSE)
        ELSE Returned(gens[g].ready)

\* Generators::Detail::stat(os): per serving generator whether the line
\* written ends with " not ready"
stat == Returned({<<IdOf(g), gens[g].ready>> : g \in serving})

(***************************************************************************)
(* Properties                                                              *)
(***************************************************************************)

ServingIds == {IdOf(g) : g \in serving}

\* C1: in every reachable state the serving set holds at most one
\* generator per resource id.
C1_OnePerId == \A g, h \in serving : IdOf(g) = IdOf(h) => g = h

\* C1: both ids are served after two passes, a failed preparation and a
\* live replacement with a bumped revision.
C1_Witness ==
    /\ npass = 2
    /\ ServingIds = Ids
    /\ errors # {}
    /\ \E g \in serving : gens[g].rev > 0

\* C2 as stated: the lookup Generators::generator returns a generator whose
\* ready flag is true, or none.
C2_GeneratorReadyOrNone ==
    \A t \in Types, id \in Ids :
        LET r == generator(t, id)
        IN  r.thrown = "none" /\ r.value # NoGen => gens[r.value].ready

\* C2 as the code has it: the GeneratorFinder lookup findGenerator_impl
\* returns a ready generator or none; Generators::generator returns the
\* serving generator of that id when its type matches, ready or not.
C2_FindGeneratorReadyOrNone ==
    \A t \in Types, id \in Ids :
        /\ LET r == findGenerator_impl(t, id)
           IN  r.thrown = "none" /\ r.value # NoGen =>
                   /\ gens[r.value].ready
                   /\ r.value \in serving
                   /\ IdOf(r.value) = id
        /\ ready /\ t = TypeOf(id) =>
               generator(t, id) = Returned(FindById(id))

\* C2: the registry is ready, generator() hands out a generator that is
\* still being prepared and findGenerator_impl() hides it.
C2_Witness ==
    \E id \in Ids :
        LET r == generator(TypeOf(id), id)
        IN  /\ r.thrown = "none"
            /\ r.value \in tasks
            /\ ~gens[r.value].ready
            /\ findGenerator_impl(TypeOf(id), id) = Returned(NoGen)

\* the replacements that have not taken their slot yet
Replacing ==
    {r \in tasks \cup Range(toReplace) : gens[r].replace # NoGen}

\* C3: while a resource id is being live-replaced, every lookup of it
\* returns the old generator or the new one, never none.
C3_OldOrNew ==
    \A r \in Replacing :
        LET l == generator(TypeOf(IdOf(r)), IdOf(r))
        IN  l.thrown = "none" => l.value \in {gens[r].replace, r}

\* the nine query methods refuse with Unavailable
AllRefuse ==
    /\ \A t \in Types, id \in Ids : generator(t, id).thrown = "Unavailable"
    /\ referenceFrame.thrown = "Unavailable"
    /\ \A t \in Types : listGroups(t).thrown = "Unavailable"
    /\ \A t \in Types, grp \in Groups :
           listIds(t, grp).thrown = "Unavailable"
    /\ \A id \in Ids : has(id).thrown = "Unavailable"
    /\ \A id \in Ids : isReady(id).thrown = "Unavailable"
    /\ \A id \in Ids : url(id).thrown = "Unavailable"
    /\ updatedSince(0).thrown = "Unavailable"
    /\ \A id \in Ids, nothrow \in BOOLEAN :
           updatedSinceId(id, nothrow).thrown = "Unavailable"
    /\ stat.thrown = "Unavailable"

\* C4 as stated: while the first updater pass has not completed, every
\* query method of the registry refuses with Unavailable.
C4_AllGated == life = "running" /\ lastUpdate = 0 => AllRefuse

\* C4 as the code has it: generator, referenceFrame, listGroups and listIds
\* refuse with Unavailable exactly while the ready flag is false; has,
\* isReady, url, updatedSince and stat never do.
C4_Gated ==
    /\ \A t \in Types, id \in Ids :
           generator(t, id).thrown = "Unavailable" <=> ~ready
    /\ referenceFrame.thrown = "Unavailable" <=> ~ready
    /\ \A t \in Types : listGroups(t).thrown = "Unavailable" <=> ~ready
    /\ \A t \in Types, grp \in Groups :
           listIds(t, grp).thrown = "Unavailable" <=> ~ready
    /\ \A id \in Ids : has(id).thrown = "none"
    /\ \A id \in Ids : isReady(id).thrown = "none"
    /\ \A id \in Ids : url(id).thrown \in {"none", "UnknownGenerator"}
    /\ updatedSince(0).thrown = "none"
    /\ \A id \in Ids, nothrow \in BOOLEAN :
           updatedSinceId(id, nothrow).thrown \in {"none", "UnknownGenerator"}
    /\ stat.thrown = "none"

\* C4: the first pass is applying its diff, the ready flag is false, the
\* generator lookup refuses and has() and stat() answer.
C4_Witness ==
    /\ ~ready
    /\ pc = "add"
    /\ toAdd # <<>>
    /\ \E id \in Ids : /\ generator(TypeOf(id), id).thrown = "Unavailable"
                       /\ has(id) = Returned(TRUE)
                       /\ stat.value # {}

\* C5: the ready flag is false after construction; it changes only from
\* false to true, and only when a pass that loaded the resource set has
\* applied all its additions, removals and replacements; a pass whose
\* load() failed or that was aborted leaves it alone.
C5_ReadyAfterFirstPass ==
    /\ ~ready
    /\ [][/\ ready' # ready =>
                /\ ~ready
                /\ ready'
                /\ pc = "publish"
                /\ outcome = "running"
                /\ DOMAIN incoming = {}
                /\ toAdd = <<>> /\ toRemove = <<>> /\ toReplace = <<>>
          /\ outcome' \in {"failed", "aborted"} /\ outcome' # outcome =>
                ready' = ready]_vars

\* C5: the first pass failed in load() and left the flag false; the second
\* pass has published it.
C5_Witness == ready /\ npass = 2 /\ lastUpdate = 0

\* the step is one of the updater thread
UpdaterStep == pc' # pc \/ walkVars' # walkVars
\* ids of the serving system generators
SystemIds == {IdOf(g) : g \in {h \in serving : gens[h].system}}
Last(q) == q[Len(q)]

\* C6 as stated: every generator the pass created for an only-in-incoming
\* id is queued for preparation when "add stuff" inserts it.
C6_AddedAreQueued ==
    [][pc = "add" /\ toAdd # <<>> /\ toAdd' = Tail(toAdd) =>
           Head(toAdd) \in tasks']_vars

\* C6 as the code has it: when a pass in which no creation and no
\* preparation failed returns, the served ids are the incoming ids and the
\* ids of the serving system generators; the walk creates a generator for
\* every only-in-incoming id and lists every only-in-current non-system
\* generator for removal; an added generator is inserted, and queued for
\* preparation unless its constructor made it ready; a listed generator is
\* erased.
C6_Reconciled ==
    [][/\ pc = "drain" /\ pc' = "pred" /\ clean =>
            ServingIds' = DOMAIN loaded \cup SystemIds'
       /\ pc = "walk" /\ pc' = "walk" /\ AtNew /\ incoming' # incoming
            /\ clean' =>
                /\ Len(toAdd') = Len(toAdd) + 1
                /\ gens'[Last(toAdd')].id = CurRes
                /\ gens'[Last(toAdd')].replace = NoGen
       /\ pc = "walk" /\ AtRemoved /\ si' # si =>
            toRemove' = IF gens[CurSrv].system THEN toRemove
                        ELSE Append(toRemove, CurSrv)
       /\ pc = "add" /\ toAdd # <<>> /\ toAdd' = Tail(toAdd) =>
            /\ Head(toAdd) \in serving'
            /\ gens[Head(toAdd)].ready \/ Head(toAdd) \in tasks'
       /\ pc = "remove" /\ toRemove # <<>> /\ toRemove' = Tail(toRemove) =>
            Head(toRemove) \notin serving']_vars

\* C6: the second pass has just returned and no preparation ever failed;
\* the passes added a generator for id 2 and removed the one of id 1 (the
\* non-system generator that had replaced the system generator).
C6_Witness ==
    /\ pc = "pred"
    /\ outcome = "returned"
    /\ npass = 2
    /\ lastUpdate = 2
    /\ errors = {}
    /\ ~ub
    /\ ServingIds = {2}

\* C7: no step of the updater thread takes a system generator whose id is
\* not in the incoming resource set out of the serving set, and no system
\* generator is ever listed for removal.
C7_SystemNeverRemoved ==
    /\ [](\A g \in Range(toRemove) : ~gens[g].system)
    /\ [][UpdaterStep =>
            \A g \in serving :
                gens[g].system /\ IdOf(g) \notin DOMAIN loaded =>
                    g \in serving']_vars

\* C7: the walk of a pass with an empty incoming set is over: it listed
\* the non-system generator for removal and passed over the system
\* generator, which "remove stuff" is about to leave in the serving set.
C7_Witness ==
    /\ pc = "remove"
    /\ DOMAIN loaded = {}
    /\ Len(toRemove) = 1
    /\ SystemIds # {}
    /\ Cardinality(serving) = 2

\* the walk is at a serving generator whose incoming definition is an
\* incompatible change, and the step is the updater's
AtYes ==
    /\ pc = "walk"
    /\ pc' = "walk"
    /\ incoming' # incoming
    /\ IF AtExisting
       THEN GeneratorChanged(gens[CurSrv], incoming[CurRes]) = "yes"
       ELSE FALSE

\* the revision of the serving generator is below the revision of the
\* replacement just listed
Bumped == gens'[Last(toReplace')].rev > gens[CurSrv].rev

\* C8 as stated: on Changed::yes of a frozen type nothing is created and
\* the serving generator stays as it is; of a non-frozen type a
\* replacement with a bumped revision is created, and it takes the slot
\* when it is prepared.
C8_FreezeOrBump ==
    [][/\ AtYes /\ TypeOf(CurRes) \in freeze =>
            /\ toReplace' = toReplace /\ toAdd' = toAdd
            /\ gens' = gens /\ serving' = serving /\ store' = store
       /\ AtYes /\ TypeOf(CurRes) \notin freeze =>
            /\ Len(toReplace') = Len(toReplace) + 1
            /\ Bumped
       /\ \A r \in Replacing :
            PrepareOk(r) => r \in serving' /\ gens[r].replace \notin serving'
      ]_vars

\* C8 as the code has it: on Changed::yes of a frozen type nothing is
\* created and the serving generator, the serving set and the stored
\* definition stay as they are.  Of a non-frozen type the creation of a
\* replacement is attempted: either it fails and nothing is listed, or a
\* generator with the incoming definition that names the serving generator
\* as its original is listed; its revision is bumped when the stored
\* resource.json, too, differs from the incoming definition by a
\* Changed::yes or withRevisionBump change, and is not when no
\* resource.json is stored or the stored one differs less.  When the
\* preparation of a replacement succeeds (or at once, when its constructor
\* made it ready) it takes the slot of its original if that is still in the
\* serving set; if it is not, serving_.replace() gets the end iterator.
C8_FreezeOrReplace ==
    [][/\ AtYes /\ TypeOf(CurRes) \in freeze =>
            /\ toReplace' = toReplace /\ toAdd' = toAdd
            /\ gens' = gens /\ serving' = serving /\ store' = store
       /\ AtYes /\ TypeOf(CurRes) \notin freeze =>
            \/ toReplace' = toReplace /\ gens' = gens /\ ~clean'
            \/ /\ Len(toReplace') = Len(toReplace) + 1
               /\ LET r == gens'[Last(toReplace')]
                      file == store[CurRes]
                  IN  /\ r.id = CurRes
                      /\ r.def = incoming[CurRes].def
                      /\ r.replace = CurSrv
                      /\ r.rev =
                            IF file = NoFile THEN incoming[CurRes].rev
                            ELSE IF Changed(file.def, r.def) \in
                                        {"yes", "withRevisionBump"}
                            THEN Max(incoming[CurRes].rev, file.rev) + 1
                            ELSE Max(incoming[CurRes].rev, file.rev)
                      /\ file = [def |-> gens[CurSrv].def,
                                 rev |-> gens[CurSrv].rev] => Bumped
       /\ \A r \in Replacing :
            \/ PrepareOk(r)
            \/ /\ pc = "replace" /\ toReplace # <<>>
               /\ toReplace' = Tail(toReplace)
               /\ r = Head(toReplace) /\ gens[r].ready
            => IF gens[r].replace \in serving
               THEN /\ serving' = (serving \ {gens[r].replace}) \cup {r}
                    /\ gens'[r].ready
                    /\ ub' = ub
               ELSE ub'
      ]_vars

\* C8: no type is frozen and the second pass met an incompatible
\* definition for a serving generator of revision 1: the replacement, of
\* revision 2, has been prepared and serves the id.
C8_Witness ==
    /\ freeze = {}
    /\ alt = DefOther
    /\ ~ub
    /\ npass = 2
    /\ \E g \in serving : /\ gens[g].rev = 2
                          /\ gens[g].ready
                          /\ store[gens[g].id] =
                                [def |-> gens[g].def, rev |-> 2]

\* C9: a generator whose prepare() raised is not in the serving set after
\* the handler's step and its resource id has been reported to
\* ResourceBackend::error; no later step puts it into the serving set.
C9_FailedNotServed ==
    /\ [](failed \cap serving = {})
    /\ [][/\ \A g \in GenIds :
                PrepareFail(g) => g \notin serving' /\ IdOf(g) \in errors'
          /\ \A g \in failed : g \notin serving']_vars

\* C9: the preparation of a serving generator has failed: its id is
\* reported and no generator serves that id.
C9_Witness ==
    \E g \in failed : /\ gens[g].id \in errors
                      /\ gens[g].id \notin ServingIds
                      /\ ready

\* the updater thread is between two passes
Idle == pc \in {"pred", "sleep", "blocked", "load"}

\* C10: the counter of preparations is never negative and equals the
\* number of posted handlers that have not finished; once a pass has
\* returned with the registry running, the counter is zero and every
\* serving generator is ready.
C10_Drained ==
    /\ preparing >= 0
    /\ preparing = Cardinality(tasks)
    /\ Idle /\ outcome = "returned" /\ running =>
            /\ preparing = 0
            /\ \A g \in serving : gens[g].ready

\* C10: a pass has returned with the registry running after a preparation
\* failed, and both ids are served by prepared generators.
C10_Witness ==
    /\ pc = "pred"
    /\ outcome = "returned"
    /\ running
    /\ errors # {}
    /\ ServingIds = Ids


(***************************************************************************)
(* Update requests                                                         *)
(***************************************************************************)

\* C11: every update request made while the registry is running is followed
\* by a pass of the updater that starts after it: a pending request leads
\* to the updater standing at the head of its loop, about to call load(),
\* unless the registry is stopped first.  The updater loses the request
\* that arrives between its wait predicate and its blocking when the
\* update period is <= 0.
C11_RequestLeadsToPass ==
    (running /\ updateRequest) ~> (pc = "load" \/ ~running)

\* the part of C11 that the timed wait rescues: with a positive period a
\* pending request is followed by a pass at the latest after the period
C11_PeriodicLeadsToPass ==
    (running /\ updateRequest /\ period > 0) ~> (pc = "load" \/ ~running)

\* the updater blocked for good on a request that nobody will repeat
C11_LostWakeup ==
    running /\ period = 0 /\ pc = "blocked" /\ updateRequest


\* C12: with an update period <= 0 the updater of a running registry
\* starts a pass after its first one only by consuming an update request:
\* a pass starts at the head of the loop only, and the updater comes back
\* to the head of the loop only through a wait predicate that found
\* updateRequest_ set, neither by a timeout, nor after a failed pass, nor
\* by a spurious wake-up.
C12_OnlyOnRequest ==
    [][/\ npass' # npass => pc = "load" /\ running
       /\ (period = 0 /\ running /\ pc # "load" /\ pc' = "load")
            => (updateRequest /\ ~updateRequest' /\ pc = "pred")]_vars

\* a second pass under way with a period <= 0
C12_Witness ==
    period = 0 /\ running /\ npass = 2 /\ pc = "walk" /\ outcome = "running"


(***************************************************************************)
(* GDAL worker pool: forked worker processes serve the requests that the   *)
(* clients submit through the shared memory; the parent reaps dead workers *)
(* with Process::join and replaces them.                                   *)
(***************************************************************************)

\* the registry as constructed and never started
RegistryIdle ==
    /\ life = "constructed"
    /\ period = 0
    /\ alt = DefCosmetic
    /\ gens = [g \in GenIds |->
                 IF g \in SysIds
                 THEN GeneratorCtor(SystemResource(g), TRUE, NoGen, NoFile)
                 ELSE Unborn]
    /\ store = [i \in Ids |-> NoFile]
    /\ tasks = SysIds
    /\ preparing = Cardinality(SysIds)
    /\ serving = SysIds
    /\ ready = FALSE
    /\ errors = {}
    /\ failed = {}
    /\ ub = FALSE
    /\ pc = "off"
    /\ npass = 0
    /\ loaded = <<>>
    /\ incoming = <<>>
    /\ si = 1
    /\ toAdd = <<>>
    /\ toRemove = <<>>
    /\ toReplace = <<>>
    /\ outcome = "none"
    /\ clean = TRUE
    /\ updateRequest = FALSE
    /\ lastUpdate = 0
    /\ asked = None

RegistryParked ==
    /\ freeze = {}
    /\ RegistryIdle

\* what no operation of the pool changes
notPool == <<regVars, defVars, metaVars, ctorVars, calVars, surfVars, idxVars>>

\* EXIT_FAILURE of <cstdlib>
EXIT_FAILURE == 1

\* faulty variant: a child that a signal killed is reported as a clean exit
ProcessJoinSignalIsSuccess(id, justTry) ==
    IF id = 0
    THEN [thrown |-> "EINVAL", id |-> id, code |-> -1]
    ELSE IF id = ParentPid
    THEN [thrown |-> "EDEADLK", id |-> id, code |-> -1]
    ELSE IF child[id] \in {"unborn", "reaped"}
    THEN [thrown |-> "ECHILD", id |-> id, code |-> -1]
    ELSE IF child[id] = "running"
    THEN [thrown |-> IF justTry THEN "Alive" ELSE "blocks",
          id |-> id, code |-> -1]
    ELSE [thrown |-> "none", id |-> 0,
          code |-> IF child[id] = "exit1" THEN 1 ELSE 0]

\* faulty variant: id_ is reset before waitpid() has reported a status
ProcessJoinResetsFirst(id, justTry) ==
    IF id = 0
    THEN [thrown |-> "EINVAL", id |-> id, code |-> -1]
    ELSE IF id = ParentPid
    THEN [thrown |-> "EDEADLK", id |-> id, code |-> -1]
    ELSE IF child[id] \in {"unborn", "reaped"}
    THEN [thrown |-> "ECHILD", id |-> 0, code |-> -1]
    ELSE IF child[id] = "running"
    THEN [thrown |-> IF justTry THEN "Alive" ELSE "blocks",
          id |-> 0, code |-> -1]
    ELSE [thrown |-> "none", id |-> 0,
          code |-> IF child[id] = "exit0" THEN 0
                   ELSE IF child[id] = "exit1" THEN 1
                   ELSE EXIT_FAILURE]

\* Process::join(justTry) on a Process whose id_ is id: the exception
\* thrown ("blocks" while waitpid() does not return), the id_ left and
\* the exit code returned.
ProcessJoin(id, justTry) ==
    IF id = 0
    THEN [thrown |-> "EINVAL", id |-> id, code |-> -1]
    ELSE IF id = ParentPid
    THEN [thrown |-> "EDEADLK", id |-> id, code |-> -1]
    ELSE IF child[id] \in {"unborn", "reaped"}
    THEN [thrown |-> "ECHILD", id |-> id, code |-> -1]
    ELSE IF child[id] = "running"
    THEN [thrown |-> IF justTry THEN "Alive" ELSE "blocks",
          id |-> id, code |-> -1]
    ELSE [thrown |-> "none", id |-> 0,
          code |-> IF child[id] = "exit0" THEN 0
                   ELSE IF child[id] = "exit1" THEN 1
                   ELSE EXIT_FAILURE]

\* The pool is created: the workers are forked.
PoolInit ==
    /\ RegistryParked
    /\ DefParked
    /\ MetaParked
    /\ CtorParked
    /\ CalParked
    /\ SurfParked
    /\ IdxParked
    /\ procId = [w \in Workers |-> w]
    /\ child = [p \in Pids |-> IF p \in Workers THEN "running" ELSE "unborn"]
    /\ busy = [p \in Pids |-> NoFp]
    /\ queue = <<>>
    /\ jobs = [f \in Fps |-> NoJob]
    /\ want = [c \in Callers |-> NoFp]
    /\ got = [c \in Callers |-> "none"]
    /\ execs = [f \in Fps |-> 0]
    /\ served = [c \in Callers |-> 0]
    /\ nreq = 0
    /\ ncrash = 0
    /\ joined = [w \in Workers |-> "none"]


\* the clients waiting for the in-flight request with fingerprint f
Waiters(f) == IF f = NoFp THEN {} ELSE jobs[f].waiters

\* faulty variant: a request is queued whether or not an identical one is
\* in flight
SubmitNoDedup(c, f) ==
    /\ want[c] = NoFp
    /\ nreq < MaxRequests
    /\ nreq' = nreq + 1
    /\ want' = [want EXCEPT ![c] = f]
    /\ got' = [got EXCEPT ![c] = "none"]
    /\ served' = [served EXCEPT ![c] = 0]
    /\ jobs' = [jobs EXCEPT ![f] =
                  [state |-> IF @.state = "none" THEN "queued" ELSE @.state,
                   waiters |-> @.waiters \cup {c}]]
    /\ queue' = Append(queue, f)
    /\ execs' = IF jobs[f].state = "none" THEN [execs EXCEPT ![f] = 0]
                ELSE execs
    /\ UNCHANGED <<procId, child, busy, ncrash, joined, notPool>>

\* A client submits a request with fingerprint f: it attaches as a waiter
\* to the in-flight request with that fingerprint when there is one, else
\* the request is placed in the shared queue.
Submit(c, f) ==
    /\ want[c] = NoFp
    /\ nreq < MaxRequests
    /\ nreq' = nreq + 1
    /\ want' = [want EXCEPT ![c] = f]
    /\ got' = [got EXCEPT ![c] = "none"]
    /\ served' = [served EXCEPT ![c] = 0]
    /\ IF jobs[f].state # "none"
       THEN /\ jobs' = [jobs EXCEPT ![f].waiters = @ \cup {c}]
            /\ UNCHANGED <<queue, execs>>
       ELSE /\ jobs' = [jobs EXCEPT ![f] =
                          [state |-> "queued", waiters |-> {c}]]
            /\ queue' = Append(queue, f)
            /\ execs' = [execs EXCEPT ![f] = 0]
    /\ UNCHANGED <<procId, child, busy, ncrash, joined, notPool>>

\* A worker picks the request at the head of the queue up and starts the
\* GDAL call.
PickUp(p) ==
    /\ child[p] = "running"
    /\ busy[p] = NoFp
    /\ queue # <<>>
    /\ busy' = [busy EXCEPT ![p] = Head(queue)]
    /\ queue' = Tail(queue)
    /\ jobs' = [jobs EXCEPT ![Head(queue)].state = "running"]
    /\ execs' = [execs EXCEPT ![Head(queue)] = @ + 1]
    /\ UNCHANGED <<procId, child, want, got, served, nreq, ncrash, joined,
                   notPool>>

\* The worker writes the result into the shared memory and signals
\* completion: every waiter receives it.
Finish(p) ==
    /\ child[p] = "running"
    /\ busy[p] # NoFp
    /\ got' = [c \in Callers |->
                 IF c \in Waiters(busy[p]) THEN "ok" ELSE got[c]]
    /\ served' = [c \in Callers |->
                    IF c \in Waiters(busy[p]) THEN p ELSE served[c]]
    /\ jobs' = [jobs EXCEPT ![busy[p]] = NoJob]
    /\ busy' = [busy EXCEPT ![p] = NoFp]
    /\ UNCHANGED <<procId, child, queue, want, execs, nreq, ncrash, joined,
                   notPool>>

\* A worker process dies: it exits with a non-zero code or a signal kills
\* it.
Die(p) ==
    /\ child[p] = "running"
    /\ ncrash < MaxCrashes
    /\ ncrash' = ncrash + 1
    /\ \E how \in {"exit1", "signal"} : child' = [child EXCEPT ![p] = how]
    /\ UNCHANGED <<procId, busy, queue, jobs, want, got, execs, served,
                   nreq, joined, notPool>>

\* the process id the next fork() returns
NextPid == MinOf({p \in Pids : child[p] = "unborn"})

\* The parent looks after worker slot w with Process::join(true).  A live
\* worker raises Alive.  A dead one is reaped; when it crashed, the
\* request it was executing fails with InternalError for all its waiters;
\* a replacement worker is forked into the slot.
Housekeeping(w) ==
    LET p == procId[w]
        r == ProcessJoin(p, TRUE)
        f == busy[p]
    IN  /\ p \in Pids
        /\ r.thrown \in {"Alive", "none"}
        /\ IF r.thrown = "Alive"
           THEN /\ joined' = [joined EXCEPT ![w] = "Alive"]
                /\ procId' = [procId EXCEPT ![w] = r.id]
                /\ UNCHANGED <<child, busy, jobs, got>>
           ELSE /\ joined' = [joined EXCEPT ![w] = "reaped"]
                /\ child' = [child EXCEPT ![p] = "reaped",
                                          ![NextPid] = "running"]
                /\ procId' = [procId EXCEPT ![w] = NextPid]
                /\ busy' = [busy EXCEPT ![p] = NoFp]
                /\ IF r.code # 0 /\ f # NoFp
                   THEN /\ got' = [c \in Callers |->
                                     IF c \in Waiters(f)
                                     THEN "InternalError" ELSE got[c]]
                        /\ jobs' = [jobs EXCEPT ![f] = NoJob]
                   ELSE UNCHANGED <<jobs, got>>
        /\ UNCHANGED <<queue, want, execs, served, nreq, ncrash, notPool>>

\* The client's call returns with what it received.
Return(c) ==
    /\ got[c] # "none"
    /\ nreq < MaxRequests
    /\ want' = [want EXCEPT ![c] = NoFp]
    /\ got' = [got EXCEPT ![c] = "none"]
    /\ served' = [served EXCEPT ![c] = 0]
    /\ UNCHANGED <<procId, child, busy, queue, jobs, execs, nreq, ncrash,
                   joined, notPool>>

PoolNext ==
    \/ \E c \in Callers, f \in Fps : Submit(c, f)
    \/ \E p \in Pids : PickUp(p)
    \/ \E p \in Pids : Finish(p)
    \/ \E p \in Pids : Die(p)
    \/ \E w \in Workers : Housekeeping(w)
    \/ \E c \in Callers : Return(c)

PoolSpec == PoolInit /\ [][PoolNext]_vars

\* Workers and the parent's housekeeping keep running; nothing obliges a
\* client to submit, and no worker has to die.
PoolLiveSpec ==
    /\ PoolInit /\ [][PoolNext]_vars
    /\ \A p \in Pids : WF_vars(PickUp(p)) /\ WF_vars(Finish(p))
    /\ \A w \in Workers : WF_vars(Housekeeping(w))


\* the worker process is dead and not yet reaped
Dead(p) == child[p] \in {"exit0", "exit1", "signal"}

\* C13: the workers start the execution of an in-flight request at most
\* once, however many clients submitted its fingerprint, and when the
\* request leaves the response map all its waiters have received the same
\* result from the same worker.
C13_OnceAndSame ==
    /\ [](\A f \in Fps : execs[f] <= 1)
    /\ [][\A f \in Fps :
            (jobs[f].state # "none" /\ jobs'[f].state = "none")
            => \A c1, c2 \in jobs[f].waiters :
                 /\ got'[c1] # "none"
                 /\ got'[c1] = got'[c2]
                 /\ served'[c1] = served'[c2]]_vars

\* all clients wait for one request that a worker is executing
C13_Witness ==
    \E f \in Fps :
      /\ jobs[f].state = "running"
      /\ jobs[f].waiters = Callers
      /\ execs[f] = 1
      /\ \E p \in Pids : busy[p] = f

\* C14: when the parent replaces a worker, the worker was dead, every
\* waiter of the request it was executing has received InternalError and
\* the slot holds a running replacement; a result is always the work of a
\* worker that was running; and no client waits forever, so that a later
\* identical request is served by a live worker.
C14_CrashRecovery ==
    /\ [][\A w \in Workers :
            procId'[w] # procId[w]
            => /\ Dead(procId[w])
               /\ child[procId[w]] # "exit0"
                    => \A c \in Waiters(busy[procId[w]]) :
                         got'[c] = "InternalError"
               /\ child'[procId'[w]] = "running"]_vars
    /\ [][\A c \in Callers :
            (got'[c] = "ok" /\ got[c] # "ok")
            => child[served'[c]] = "running"]_vars
    /\ \A c \in Callers :
         (want[c] # NoFp /\ got[c] = "none") ~> (got[c] # "none")

\* a client holds the InternalError of a request whose worker died, and a
\* later request with the same fingerprint was served by a replacement
C14_Witness ==
    \E c1, c2 \in Callers :
      /\ want[c1] # NoFp
      /\ want[c1] = want[c2]
      /\ got[c1] = "InternalError"
      /\ got[c2] = "ok"
      /\ served[c2] \notin Workers
      /\ child[served[c2]] = "running"


\* C18: Process::join(true) on a child that is still running raises Alive
\* and leaves id_ as it was; a Process whose last join raised Alive is
\* still joinable, and a later join waits for the child or reaps it.
C18_AliveKeepsJoinable ==
    /\ [](\A w \in Workers :
            /\ (procId[w] \in Pids /\ child[procId[w]] = "running")
                 => ProcessJoin(procId[w], TRUE)
                      = [thrown |-> "Alive", id |-> procId[w], code |-> -1]
            /\ joined[w] = "Alive"
                 => /\ procId[w] \in Pids
                    /\ ProcessJoin(procId[w], FALSE).thrown
                         \in {"blocks", "none"})
    /\ [][\A w \in Workers :
            (joined'[w] = "Alive" /\ joined[w] # "Alive")
            => /\ child[procId[w]] = "running"
               /\ procId' = procId
               /\ child' = child]_vars

\* a join raised Alive, the child has died since and the next join reaps
\* it
C18_Witness ==
    \E w \in Workers :
      /\ joined[w] = "Alive"
      /\ Dead(procId[w])
      /\ ProcessJoin(procId[w], TRUE).thrown = "none"
      /\ ProcessJoin(procId[w], TRUE).id = 0


(***************************************************************************)
(* Resource definitions: SurfaceBase::SurfaceDefinition (surface.cpp) and  *)
(* resource::TmsRasterPatchwork (definition/tms-raster-patchwork.cpp).     *)
(***************************************************************************)

\* largest revision of a resource examined
MaxRev == 1

\* boost::optional over the values S
Optional(S) == {None} \cup {Some(v) : v \in S}

\* values of the fields
TexelSizes == {10, 20}
Lods == {3, 7}
\* Resource::Id as parse fills it: group and id, the reference frame left
\* default-constructed
TmsIds == {[referenceFrame |-> "", group |-> "g", id |-> i] :
             i \in {"a", "b"}}
\* vr::Position values
Positions == {"p1", "p2"}
Masks == {"m1", "m2"}
\* RasterFormat::jpg, RasterFormat::png
RasterFormats == {0, 1}

SurfaceDefinitions ==
    [nominalTexelSize : Optional(TexelSizes),
     mergeBottomLod : Optional(Lods),
     introspectionTms : Optional(TmsIds),
     introspectionPosition : Optional(Positions)]

TmsRasterPatchworks == [mask : Optional(Masks), format : RasterFormats]

\* Json::objectValue and value[k] = v
EmptyObject == [k \in {} |-> 0]
Put(value, k, v) ==
    [m \in DOMAIN value \cup {k} |-> IF m = k THEN v ELSE value[m]]
\* value.isMember(k)
IsMember(value, k) == k \in DOMAIN value

\* vr::asJson(position) and vr::positionFromJson(value)
PositionAsJson(p) == <<"position", p>>
PositionFromJson(v) == v[2]

\* boost::lexical_cast between RasterFormat and std::string
FormatToString(f) == IF f = 0 THEN "jpg" ELSE "png"
StringToFormat(str) == IF str = "jpg" THEN 0 ELSE 1


\* SurfaceBase::SurfaceDefinition::parse(const Json::Value&) into a
\* default-constructed definition
SurfaceDefinition_parse(value) ==
    [nominalTexelSize |->
        IF IsMember(value, "nominalTexelSize")
        THEN Some(value["nominalTexelSize"]) ELSE None,
     mergeBottomLod |->
        IF IsMember(value, "mergeBottomLod")
        THEN Some(value["mergeBottomLod"]) ELSE None,
     introspectionTms |->
        IF IsMember(value, "introspection")
           /\ IsMember(value["introspection"], "tms")
        THEN Some([referenceFrame |-> "",
                   group |-> value["introspection"]["tms"]["group"],
                   id |-> value["introspection"]["tms"]["id"]])
        ELSE None,
     introspectionPosition |->
        IF IsMember(value, "introspection")
           /\ IsMember(value["introspection"], "position")
        THEN Some(PositionFromJson(value["introspection"]["position"]))
        ELSE None]

\* the "introspection" member that build writes
IntrospectionObject(d) ==
    LET tms == IF d.introspectionTms # None
               THEN Put(EmptyObject, "tms",
                        Put(Put(EmptyObject, "group",
                                d.introspectionTms[1].group),
                            "id", d.introspectionTms[1].id))
               ELSE EmptyObject
    IN  IF d.introspectionPosition # None
        THEN Put(tms, "position", PositionAsJson(d.introspectionPosition[1]))
        ELSE tms

\* faulty variant: the introspection is written only when it names a tms
SurfaceBuildTmsOnly(d) ==
    LET v1 == IF d.nominalTexelSize # None
              THEN Put(EmptyObject, "nominalTexelSize", d.nominalTexelSize[1])
              ELSE EmptyObject
        v2 == IF d.mergeBottomLod # None
              THEN Put(v1, "mergeBottomLod", d.mergeBottomLod[1])
              ELSE v1
    IN  IF d.introspectionTms # None
        THEN Put(v2, "introspection", IntrospectionObject(d))
        ELSE v2

\* SurfaceBase::SurfaceDefinition::build(Json::Value&) into an empty value
SurfaceDefinition_build(d) ==
    LET v1 == IF d.nominalTexelSize # None
              THEN Put(EmptyObject, "nominalTexelSize", d.nominalTexelSize[1])
              ELSE EmptyObject
        v2 == IF d.mergeBottomLod # None
              THEN Put(v1, "mergeBottomLod", d.mergeBottomLod[1])
              ELSE v1
    IN  IF d.introspectionTms # None \/ d.introspectionPosition # None
        THEN Put(v2, "introspection", IntrospectionObject(d))
        ELSE v2

\* faulty variant: a merge-bottom LOD is compared only when this
\* definition has one
SurfaceChangedOneSided(d, other) ==
    IF d.nominalTexelSize # other.nominalTexelSize THEN "safely"
    ELSE IF d.mergeBottomLod # None
            /\ d.mergeBottomLod # other.mergeBottomLod THEN "safely"
    ELSE IF d.introspectionTms # other.introspectionTms THEN "safely"
    ELSE IF d.introspectionPosition # other.introspectionPosition
    THEN "safely"
    ELSE "no"

\* faulty variant: a changed merge-bottom LOD asks for a new revision
SurfaceChangedLodBumps(d, other) ==
    IF d.nominalTexelSize # other.nominalTexelSize THEN "safely"
    ELSE IF d.mergeBottomLod # other.mergeBottomLod THEN "withRevisionBump"
    ELSE IF d.introspectionTms # other.introspectionTms THEN "safely"
    ELSE IF d.introspectionPosition # other.introspectionPosition
    THEN "safely"
    ELSE "no"

\* SurfaceBase::SurfaceDefinition::changed_impl
SurfaceDefinition_changed_impl(d, other) ==
    IF d.nominalTexelSize # other.nominalTexelSize THEN "safely"
    ELSE IF d.mergeBottomLod # other.mergeBottomLod THEN "safely"
    ELSE IF d.introspectionTms # other.introspectionTms THEN "safely"
    ELSE IF d.introspectionPosition # other.introspectionPosition
    THEN "safely"
    ELSE "no"

\* parseDefinition(TmsRasterPatchwork&, const Json::Value&) into a
\* default-constructed definition, whose format is RasterFormat::jpg
parseDefinition(value) ==
    [mask |-> IF IsMember(value, "mask") THEN Some(value["mask"]) ELSE None,
     format |-> IF IsMember(value, "format")
                THEN StringToFormat(value["format"]) ELSE 0]

\* buildDefinition(Json::Value&, const TmsRasterPatchwork&)
buildDefinition(def) ==
    Put(IF def.mask # None THEN Put(EmptyObject, "mask", def.mask[1])
        ELSE EmptyObject,
        "format", FormatToString(def.format))

\* TmsRasterPatchwork::changed_impl
TmsRasterPatchwork_changed_impl(d, other) ==
    IF d.mask # other.mask THEN "yes"
    ELSE IF d.format # other.format THEN "safely"
    ELSE "no"


\* the definitions of one type
Definitions(kind) ==
    IF kind = "surface" THEN SurfaceDefinitions ELSE TmsRasterPatchworks

\* DefinitionBase::changed, to and from dispatch on the definition type
DefChanged(kind, d, other) ==
    IF kind = "surface" THEN SurfaceDefinition_changed_impl(d, other)
    ELSE TmsRasterPatchwork_changed_impl(d, other)
DefBuild(kind, d) ==
    IF kind = "surface" THEN SurfaceDefinition_build(d)
    ELSE buildDefinition(d)
DefParse(kind, value) ==
    IF kind = "surface" THEN SurfaceDefinition_parse(value)
    ELSE parseDefinition(value)

\* The definition as Resource::changed sees it: its part whose change is
\* incompatible, its part whose change asks for a new revision, its part
\* that changes safely, each as the number of its value.
AsResourceDef(kind, d) ==
    LET Nth(o, first) == IF o = None THEN 0 ELSE IF o[1] = first THEN 1 ELSE 2
    IN  IF kind = "surface"
        THEN <<0, 0, Nth(d.nominalTexelSize, 10)
                     + 3 * Nth(d.mergeBottomLod, 3)
                     + 9 * Nth(d.introspectionTms,
                               [referenceFrame |-> "", group |-> "g",
                                id |-> "a"])
                     + 27 * Nth(d.introspectionPosition, "p1")>>
        ELSE <<Nth(d.mask, "m1"), 0, d.format>>

\* what no operation on definitions changes
notDef == <<regVars, poolVars, metaVars, ctorVars, calVars, surfVars, idxVars>>

\* two definitions of one type, each with a revision
DefInit ==
    /\ RegistryParked
    /\ PoolParked
    /\ MetaParked
    /\ CtorParked
    /\ CalParked
    /\ SurfParked
    /\ IdxParked
    /\ defKind \in {"surface", "patchwork"}
    /\ defX \in Definitions(defKind)
    /\ defY \in Definitions(defKind)
    /\ revX \in 0..MaxRev
    /\ revY \in 0..MaxRev
    /\ cls = None
    /\ json = None
    /\ back = None
    /\ reopened = None

\* the definitions are classified against each other and against themselves
Classify ==
    /\ cls = None
    /\ cls' = Some([xy |-> DefChanged(defKind, defX, defY),
                    yx |-> DefChanged(defKind, defY, defX),
                    xx |-> DefChanged(defKind, defX, defX)])
    /\ UNCHANGED <<defKind, defX, defY, revX, revY, json, back, reopened,
                   notDef>>

\* the stored definition is serialized
Build ==
    /\ json = None
    /\ json' = Some(DefBuild(defKind, defX))
    /\ UNCHANGED <<defKind, defX, defY, revX, revY, cls, back, reopened,
                   notDef>>

\* the serialized definition is parsed
Parse ==
    /\ json # None
    /\ back = None
    /\ back' = Some(DefParse(defKind, json[1]))
    /\ UNCHANGED <<defKind, defX, defY, revX, revY, cls, json, reopened,
                   notDef>>

\* Generator::Generator over the stored resource (defX, revX) with the
\* resource (defY, revY) passed in
Reopen ==
    /\ reopened = None
    /\ reopened' =
         Some(GeneratorCtor([id |-> NumIds,
                             def |-> AsResourceDef(defKind, defY),
                             rev |-> revY],
                            FALSE, NoGen,
                            [def |-> AsResourceDef(defKind, defX),
                             rev |-> revX]))
    /\ UNCHANGED <<defKind, defX, defY, revX, revY, cls, json, back, notDef>>

DefNext == Classify \/ Build \/ Parse \/ Reopen

DefSpec == DefInit /\ [][DefNext]_vars


SameCosmetics ==
    /\ defX.nominalTexelSize = defY.nominalTexelSize
    /\ defX.mergeBottomLod = defY.mergeBottomLod
    /\ defX.introspectionTms = defY.introspectionTms
    /\ defX.introspectionPosition = defY.introspectionPosition

\* C17: two surface definitions are classified Changed::no when their four
\* fields are equal and Changed::safely otherwise; Resource::changed
\* passes the definition's class on; and the generator reopened over a
\* stored definition with a safely changed one takes the new definition
\* at the merged revision, without a bump.
C17_CosmeticIsSafe ==
    /\ (cls # None /\ defKind = "surface")
         => cls[1].xy = IF SameCosmetics THEN "no" ELSE "safely"
    /\ cls # None
         => Changed(AsResourceDef(defKind, defX),
                    AsResourceDef(defKind, defY)) = cls[1].xy
    /\ (reopened # None /\ cls # None /\ cls[1].xy = "safely")
         => /\ reopened[1].def = AsResourceDef(defKind, defY)
            /\ reopened[1].rev = Max(revX, revY)
            /\ ~reopened[1].changeEnforced
            /\ ~reopened[1].fresh

\* a nominal texel size changed from 10 to 20 over a stored revision 1
C17_Witness ==
    /\ cls # None
    /\ reopened # None
    /\ defKind = "surface"
    /\ defX.nominalTexelSize = Some(10)
    /\ defY.nominalTexelSize = Some(20)
    /\ defX.mergeBottomLod = defY.mergeBottomLod
    /\ defX.introspectionTms = defY.introspectionTms
    /\ defX.introspectionPosition = defY.introspectionPosition
    /\ revX = 1
    /\ revY = 0
    /\ cls[1].xy = "safely"
    /\ reopened[1].rev = 1

(***************************************************************************)
(* metatileFromDem (generator/metatile.cpp).                               *)
(*                                                                         *)
(* One call: the blocks of the metatile, the warp of a productive block,   *)
(* the sample grid and the metanode built for every tile.  Blocks are one  *)
(* tile high; heights are counted in halves so that floor and ceil move    *)
(* them.                                                                   *)
(***************************************************************************)
notMeta == <<regVars, poolVars, defVars, ctorVars, calVars, surfVars, idxVars>>

\* metatileSamplesPerTile, scaled down (8 in the source)
SamplesPerTile == 1
\* most blocks metatileBlocks returns
MaxBlocks == 2
\* most tiles in a block (bSize.width; bSize.height is 1)
MaxBlockTiles == 2

\* std::numeric_limits<double>::max() of HeightRange::emptyRange(), in halves
Infinity == 1000

\* HeightRange::emptyRange()
EmptyRange == [min |-> Infinity, max |-> -Infinity]

\* Range::empty()
IsEmpty(r) == r.min > r.max

\* vs::unite
unite(a, b) ==
    [min |-> IF a.min < b.min THEN a.min ELSE b.min,
     max |-> IF a.max > b.max THEN a.max ELSE b.max]

\* std::floor and std::ceil of a height in halves; the infinities stay
Floor(h) == IF h >= Infinity \/ h <= -Infinity THEN h ELSE 2 * (h \div 2)
Ceil(h) == IF h >= Infinity \/ h <= -Infinity THEN h ELSE 2 * ((h + 1) \div 2)

\* heights the DEM has, in halves: 0.5 and 1.5
HalfHeights == {1, 3}

\* Sample(): valid(false), heightRange(emptyRange())
NoSample == [valid |-> FALSE, heightRange |-> EmptyRange]

\* Sample(x, y, value, conv, navConv, geConv): a valid sample
Sample(h) == [valid |-> TRUE, heightRange |-> [min |-> h, max |-> h]]

Samples == {NoSample} \cup {Sample(h) : h \in HalfHeights}

\* the children of a tile in the quadtree (vts::children)
Children == 0 .. 3

\* what tileIndex.validSubtree says of the four children of a tile
ValidSubtrees == {{}, {0, 1}, Children}
\* the children of a tile whose reference frame node is valid
ValidNodes == {{}, {1, 2}, Children}

\* TileIndex::Flag values tileIndex.get(nodeId) may carry
TiFlags == SUBSET {"mesh", "navtile"}

\* MetaNode::Flag::allChildren
allChildren == Children

\* ti2metaFlags
ti2metaFlags(ti) ==
    [children |-> allChildren,
     geometryPresent |-> "mesh" \in ti,
     navtilePresent |-> "navtile" \in ti]

\* MetaNode::setChildFromId(child, valid): sets or clears the bit of child
setChildFromId(cs, c, valid) == IF valid THEN cs \cup {c} ELSE cs \ {c}

\* setChildren, with the tile index alone deciding
setChildrenSubtreeOnly(cs, vs, nv) ==
    LET RECURSIVE Each(_, _)
        Each(acc, c) ==
            IF c \notin Children THEN acc
            ELSE Each(setChildFromId(acc, c, c \in vs), c + 1)
    IN  Each(cs, 0)

\* the lambda setChildren of metatileFromDem: cs are the child bits of the
\* node, vs the valid subtrees of the tile index, nv the valid nodes
setChildren(cs, vs, nv) ==
    LET RECURSIVE Each(_, _)
        Each(acc, c) ==
            IF c \notin Children THEN acc
            ELSE Each(setChildFromId(acc, c, c \in vs /\ c \in nv), c + 1)
    IN  Each(cs, 0)

\* vts::MetaNode node; node.flags(ti2metaFlags(...))
MetaNode(flags) ==
    [geometry |-> flags.geometryPresent,
     navtile |-> flags.navtilePresent,
     children |-> flags.children,
     heightRange |-> [min |-> 0, max |-> 0],
     geomExtents |-> EmptyRange]

\* the second component of quadArea: the triangles of a quad by its valid
\* corners
quadArea(v00, v11, v01, v10) ==
    LET n == Cardinality({k \in 1 .. 4 : <<v00, v11, v01, v10>>[k].valid})
    IN  IF n = 4 THEN 2 ELSE IF n = 3 THEN 1 ELSE 0

\* the vertices of the grid of a block of w tiles
Vertices(w) == (0 .. w * SamplesPerTile) \X (0 .. SamplesPerTile)

\* blocks metatileBlocks may return
Blocks == [productive : BOOLEAN, width : 1 .. MaxBlockTiles]

BlockSeqs == UNION {[1 .. n -> Blocks] : n \in 0 .. MaxBlocks}

\* the loops over (jj, ii) of the body of the tile loop: te is left out
SampleTile(i, geometry, navtile) ==
    LET RECURSIVE Vertex(_, _, _)
        Vertex(jj, ii, acc) ==
            IF jj > SamplesPerTile THEN acc
            ELSE IF ii > SamplesPerTile THEN Vertex(jj + 1, 0, acc)
            ELSE
              LET xx == i * SamplesPerTile + ii
                  yy == jj
                  p == grid[<<xx, yy>>]
                  a1 == IF p.valid
                          THEN [acc EXCEPT
                                  !.geomExtents = unite(@, p.heightRange),
                                  !.avgHeightCount = @ + 1]
                          ELSE acc
                  a2 == IF geometry /\ ii # 0 /\ jj # 0
                          THEN [a1 EXCEPT !.triangleCount =
                                  @ + quadArea(grid[<<xx - 1, yy - 1>>], p,
                                               grid[<<xx - 1, yy>>],
                                               grid[<<xx, yy - 1>>])]
                          ELSE a1
                  a3 == IF p.valid /\ navtile
                          THEN [a2 EXCEPT
                                  !.heightRange = unite(@, p.heightRange)]
                          ELSE a2
              IN  Vertex(jj, ii + 1, a3)
    IN  Vertex(0, 0, [heightRange |-> EmptyRange,
                      geomExtents |-> EmptyRange,
                      triangleCount |-> 0,
                      avgHeightCount |-> 0])

\* the body of the tile loop of a productive block, up to metatile.set
ProductiveNode(i, ti, vs, nv) ==
    LET n0 == MetaNode(ti2metaFlags(ti))
        s == SampleTile(i, n0.geometry, n0.navtile)
        n1 == [n0 EXCEPT !.geomExtents = s.geomExtents,
                         !.children = setChildren(@, vs, nv)]
        n2 == [n1 EXCEPT !.heightRange =
                            [min |-> Floor(s.heightRange.min),
                             max |-> Ceil(s.heightRange.max)]]
    IN  IF s.triangleCount = 0
          THEN \* heightRange = heightRange.emptyRange() resets the local
               \* variable, after node.heightRange was assigned
               [n2 EXCEPT !.geometry = FALSE,
                          !.navtile = FALSE,
                          !.geomExtents = EmptyRange]
          ELSE n2

\* the body of the tile loop of generateUnproductiveNodes
UnproductiveNode(ti, vs, nv) ==
    LET n0 == MetaNode(ti2metaFlags(ti))
    IN  [n0 EXCEPT !.children = setChildren(@, vs, nv)]

MetaInit ==
    /\ RegistryParked
    /\ PoolParked
    /\ DefParked
    /\ CtorParked
    /\ CalParked
    /\ SurfParked
    /\ IdxParked
    /\ mblocks \in BlockSeqs
    /\ mpc = "start"
    /\ bi = 0
    /\ tile = 0
    /\ grid = <<>>
    /\ metatile = <<>>
    /\ node = None
    /\ nodeIn = None
    /\ sinkAborted = FALSE

\* the next position of the loop over blocks, from block b on
AtBlock(b) ==
    IF b > Len(mblocks) THEN "done"
    ELSE IF mblocks[b].productive THEN "warp" ELSE "unproductive"

\* auto blocks(metatileBlocks(resource, tileId)): no block raises NotFound
MetatileBlocks ==
    /\ mpc = "start"
    /\ IF mblocks = <<>>
         THEN /\ mpc' = "NotFound"
              /\ bi' = bi
         ELSE /\ mpc' = AtBlock(1)
              /\ bi' = 1
    /\ UNCHANGED <<mblocks, tile, grid, metatile, node, nodeIn, sinkAborted,
                   notMeta>>

\* arsenal.warper.warp(...) of a productive block
WarpDem ==
    /\ mpc = "warp"
    /\ mpc' = "warped"
    /\ UNCHANGED <<mblocks, bi, tile, grid, metatile, node, nodeIn,
                   sinkAborted, notMeta>>

\* sink.checkAborted() after the warp, on an aborted request
CheckAbortedThrows ==
    /\ mpc = "warped"
    /\ sinkAborted
    /\ mpc' = "aborted"
    /\ UNCHANGED <<mblocks, bi, tile, grid, metatile, node, nodeIn,
                   sinkAborted, notMeta>>

\* sink.checkAborted() passes and the grid is filled from the warped DEM
\* and the mask
FillGrid ==
    /\ mpc = "warped"
    /\ ~sinkAborted
    /\ grid' \in [Vertices(mblocks[bi].width) -> Samples]
    /\ tile' = 0
    /\ mpc' = "tile"
    /\ UNCHANGED <<mblocks, bi, metatile, node, nodeIn, sinkAborted, notMeta>>

\* one tile of a productive block, up to metatile.set
BuildNode ==
    /\ mpc = "tile"
    /\ \E ti \in TiFlags, vs \in ValidSubtrees, nv \in ValidNodes :
         /\ node' = Some(ProductiveNode(tile, ti, vs, nv))
         /\ nodeIn' = Some([productive |-> TRUE,
                            ti |-> ti,
                            validSubtree |-> vs,
                            nodeValid |-> nv,
                            triangleCount |->
                              SampleTile(tile, "mesh" \in ti,
                                         "navtile" \in ti).triangleCount,
                            samples |->
                              SampleTile(tile, "mesh" \in ti,
                                         "navtile" \in ti).avgHeightCount])
    /\ mpc' = "store"
    /\ UNCHANGED <<mblocks, bi, tile, grid, metatile, sinkAborted, notMeta>>

\* generateUnproductiveNodes enters the block
EnterUnproductive ==
    /\ mpc = "unproductive"
    /\ tile' = 0
    /\ mpc' = "utile"
    /\ UNCHANGED <<mblocks, bi, grid, metatile, node, nodeIn, sinkAborted,
                   notMeta>>

\* one tile of generateUnproductiveNodes, up to metatile.set
GenerateUnproductiveNode ==
    /\ mpc = "utile"
    /\ \E ti \in TiFlags, vs \in ValidSubtrees, nv \in ValidNodes :
         /\ node' = Some(UnproductiveNode(ti, vs, nv))
         /\ nodeIn' = Some([productive |-> FALSE,
                            ti |-> ti,
                            validSubtree |-> vs,
                            nodeValid |-> nv,
                            triangleCount |-> 0,
                            samples |-> 0])
    /\ mpc' = "store"
    /\ UNCHANGED <<mblocks, bi, tile, grid, metatile, sinkAborted, notMeta>>

\* metatile.set(nodeId, node), with the loop over i left after one tile
MetatileSetOnce ==
    /\ mpc = "store"
    /\ metatile' =
         [t \in DOMAIN metatile \cup {<<bi, tile>>} |->
            IF t = <<bi, tile>>
              THEN (IF t \in DOMAIN metatile THEN metatile[t] ELSE 0) + 1
              ELSE metatile[t]]
    /\ node' = None
    /\ nodeIn' = None
    /\ tile' = 0
    /\ bi' = bi + 1
    /\ mpc' = AtBlock(bi + 1)
    /\ grid' = <<>>
    /\ UNCHANGED <<mblocks, sinkAborted, notMeta>>

\* metatile.set(nodeId, node) and the step of the loops
MetatileSet ==
    /\ mpc = "store"
    /\ metatile' =
         [t \in DOMAIN metatile \cup {<<bi, tile>>} |->
            IF t = <<bi, tile>>
              THEN (IF t \in DOMAIN metatile THEN metatile[t] ELSE 0) + 1
              ELSE metatile[t]]
    /\ node' = None
    /\ nodeIn' = None
    /\ IF tile + 1 < mblocks[bi].width
         THEN /\ tile' = tile + 1
              /\ bi' = bi
              /\ mpc' = IF mblocks[bi].productive THEN "tile" ELSE "utile"
              /\ grid' = grid
         ELSE /\ tile' = 0
              /\ bi' = bi + 1
              /\ mpc' = AtBlock(bi + 1)
              /\ grid' = <<>>
    /\ UNCHANGED <<mblocks, sinkAborted, notMeta>>

\* the client goes away while the call runs
SinkAbort ==
    /\ mpc \notin {"off", "done", "NotFound", "aborted"}
    /\ ~sinkAborted
    /\ sinkAborted' = TRUE
    /\ UNCHANGED <<mblocks, mpc, bi, tile, grid, metatile, node, nodeIn,
                   notMeta>>

MetaNext ==
    \/ MetatileBlocks
    \/ WarpDem
    \/ CheckAbortedThrows
    \/ FillGrid
    \/ BuildNode
    \/ EnterUnproductive
    \/ GenerateUnproductiveNode
    \/ MetatileSet
    \/ SinkAbort

MetaSpec == MetaInit /\ [][MetaNext]_vars

\* C19: every metanode metatileFromDem stores for a tile whose sampling
\* counted no triangle has geometry = false, navtile = false and an empty
\* node.heightRange, whatever valid samples the tile had.
C19_NoTrianglesEmptyNode ==
    (mpc = "store" /\ nodeIn[1].productive /\ nodeIn[1].triangleCount = 0)
      => /\ ~node[1].geometry
         /\ ~node[1].navtile
         /\ IsEmpty(node[1].heightRange)

\* C19, the part the code keeps: the content flags and the geom extents of
\* such a node are reset.
C19_FlagsReset ==
    (mpc = "store" /\ nodeIn[1].productive /\ nodeIn[1].triangleCount = 0)
      => /\ ~node[1].geometry
         /\ ~node[1].navtile
         /\ IsEmpty(node[1].geomExtents)

\* a tile with navtile set in the tile index, valid samples and no triangle
\* is about to be stored with the height range of its samples
C19_StaleHeightRange ==
    /\ mpc = "store"
    /\ nodeIn[1].productive
    /\ nodeIn[1].triangleCount = 0
    /\ nodeIn[1].samples > 0
    /\ "navtile" \in nodeIn[1].ti
    /\ node[1].heightRange = [min |-> 0, max |-> 4]

\* C20: for every metanode metatileFromDem produces, in productive and in
\* unproductive blocks, the bit of a child is set only if the tile index
\* has a valid subtree at the child and the reference frame node of the
\* child is valid.
C20_ChildValidity ==
    mpc = "store"
      => \A c \in Children :
           c \in node[1].children
             => c \in nodeIn[1].validSubtree /\ c \in nodeIn[1].nodeValid

\* a node of an unproductive block whose tile index says {0, 1} and whose
\* reference frame says {1, 2} keeps child 1 alone
C20_Witness ==
    /\ mpc = "store"
    /\ ~nodeIn[1].productive
    /\ nodeIn[1].validSubtree = {0, 1}
    /\ nodeIn[1].nodeValid = {1, 2}
    /\ node[1].children = {1}

\* the same in a productive block: every child survives where both agree
C20_WitnessProductive ==
    /\ mpc = "store"
    /\ nodeIn[1].productive
    /\ nodeIn[1].validSubtree = Children
    /\ nodeIn[1].nodeValid = Children
    /\ node[1].children = Children

\* C21: every metanode metatileFromDem stores with geometry present has
\* heightRange.min <= heightRange.max, for mesh with and without navtile
\* in the tile index and for every validity of the samples.
C21_GeometryHasHeightRange ==
    (mpc = "store" /\ node[1].geometry)
      => node[1].heightRange.min <= node[1].heightRange.max

\* C21, the part the code keeps: a stored node with navtile present has a
\* height range that is not inverted.
C21_NavtileHasHeightRange ==
    (mpc = "store" /\ node[1].navtile)
      => node[1].heightRange.min <= node[1].heightRange.max

\* a tile with mesh alone in the tile index and triangles is about to be
\* stored with geometry and the floor and ceil of the empty range
C21_InvertedHeightRange ==
    /\ mpc = "store"
    /\ nodeIn[1].productive
    /\ nodeIn[1].ti = {"mesh"}
    /\ nodeIn[1].triangleCount > 0
    /\ node[1].geometry
    /\ node[1].heightRange = [min |-> Infinity, max |-> -Infinity]

\* the tiles of the views of the blocks
ViewTiles ==
    {t \in (1 .. MaxBlocks) \X (0 .. (MaxBlockTiles - 1)) :
       t[1] <= Len(mblocks) /\ t[2] < mblocks[t[1]].width}

\* C22: when metatileFromDem returns a metatile, every tile of the view of
\* every block, productive or not, has exactly one metanode stored, and the
\* metatile was never set twice for a tile on the way.
C22_OneNodePerTile ==
    /\ mpc = "done"
         => /\ DOMAIN metatile = ViewTiles
            /\ \A t \in ViewTiles : metatile[t] = 1
    /\ \A t \in DOMAIN metatile : metatile[t] = 1 /\ t \in ViewTiles

\* the call returned over a productive block of two tiles and an
\* unproductive one of two tiles
C22_Witness ==
    /\ mpc = "done"
    /\ Len(mblocks) = 2
    /\ mblocks[1].productive /\ mblocks[1].width = 2
    /\ ~mblocks[2].productive /\ mblocks[2].width = 2
    /\ DOMAIN metatile = {<<1, 0>>, <<1, 1>>, <<2, 0>>, <<2, 1>>}

(***************************************************************************)
(* Generator::Generator and Generator::makeReady (generator.cpp), on one   *)
(* generator: every resource passed in, every resource.json found, system  *)
(* or not, type frozen or not.                                             *)
(***************************************************************************)
notCtor == <<regVars, poolVars, defVars, metaVars, calVars, surfVars, idxVars>>

\* the definitions a resource may carry
Defs == {DefBase} \cup AltDefs

\* resource.json as found in the root directory: none, or a saved resource
Files == {NoFile} \cup [def : Defs, rev : 0 .. MaxRev]

CtorInit ==
    /\ RegistryIdle
    /\ freeze \in {{}, Types}
    /\ PoolParked
    /\ DefParked
    /\ MetaParked
    /\ CalParked
    /\ SurfParked
    /\ IdxParked
    /\ \E id \in Ids, d \in Defs, r \in 0 .. MaxRev, sys \in BOOLEAN,
          f \in Files :
         /\ cparams = Some([resource |-> [id |-> id, def |-> d, rev |-> r],
                            system |-> sys,
                            file |-> f])
         /\ cfile = Some(f)
    /\ cgen = None

\* Generator::Generator(const Params &params)
Construct ==
    /\ cparams # None
    /\ cgen = None
    /\ cgen' = Some(GeneratorCtor(cparams[1].resource, cparams[1].system,
                                  NoGen, cfile[1]))
    /\ cfile' = Some(CtorFile(cparams[1].resource, cparams[1].system,
                              cfile[1]))
    /\ UNCHANGED <<cparams, notCtor>>

\* Generator::makeReady()
CallMakeReady ==
    /\ cgen # None
    /\ ~cgen[1].ready
    /\ cgen' = Some(MakeReady(cgen[1]))
    /\ cfile' = Some(MakeReadyFile(cgen[1], cfile[1]))
    /\ UNCHANGED <<cparams, notCtor>>

CtorNext == Construct \/ CallMakeReady

CtorSpec == CtorInit /\ [][CtorNext]_vars

\* the revision C29 states for a generator constructed over the stored
\* resource file for the resource res
ClaimedRevision(res, file) ==
    LET chg == Changed(file.def, res.def)
        m == Max(res.rev, file.rev)
    IN  IF chg \in {"no", "safely"} \/ (chg = "yes" /\ TypeOf(res.id) \in freeze)
          THEN m
          ELSE m + 1

\* C29: a generator constructed over an existing stored resource.json has
\* the revision max(passed, stored) when the change is no, safely or an
\* incompatible change of a frozen type, that maximum plus one when the
\* change is withRevisionBump or an incompatible change of a type that is
\* not frozen, and never a revision below the stored one.
C29_MergedRevision ==
    (cgen # None /\ cparams[1].file # NoFile)
      => /\ cgen[1].rev = ClaimedRevision(cparams[1].resource, cparams[1].file)
         /\ cgen[1].rev >= cparams[1].file.rev

\* C29 for the generators that are not system generators
C29_MergedRevisionNotSystem ==
    (cgen # None /\ cparams[1].file # NoFile /\ ~cparams[1].system)
      => /\ cgen[1].rev = ClaimedRevision(cparams[1].resource, cparams[1].file)
         /\ cgen[1].rev >= cparams[1].file.rev

\* an incompatible change of a type that is not frozen, passed at revision 0
\* over a stored revision 1, gives revision 2
C29_Witness ==
    /\ cgen # None
    /\ ~cparams[1].system
    /\ cparams[1].file = [def |-> DefBase, rev |-> 1]
    /\ cparams[1].resource.def = DefOther
    /\ cparams[1].resource.rev = 0
    /\ TypeOf(cparams[1].resource.id) \notin freeze
    /\ cgen[1].rev = 2
    /\ cgen[1].changeEnforced

\* a system generator constructed over a stored revision 1 keeps the
\* revision 0 it was passed
C29_SystemIgnoresFile ==
    /\ cgen # None
    /\ cparams[1].system
    /\ cparams[1].file # NoFile
    /\ cparams[1].file.rev = 1
    /\ cparams[1].resource.rev = 0
    /\ cgen[1].rev = 0
    /\ cgen[1].fresh

\* C30: after makeReady() the generator is ready and resource.json holds
\* the generator's current resource, its revision included, on every
\* construction path.
C30_PersistedIsCurrent ==
    (cgen # None /\ cgen[1].ready)
      => cfile[1] = [def |-> cgen[1].def, rev |-> cgen[1].rev]

\* C30, the part the code keeps: the generator is ready, the definition on
\* disk is the generator's, and the revision on disk is the generator's on
\* every path but the incompatible change of a frozen type.
C30_PersistedDefinition ==
    (cgen # None /\ cgen[1].ready)
      => /\ cfile[1].def = cgen[1].def
         /\ (cgen[1].fresh
               \/ ~(Changed(cparams[1].file.def, cparams[1].resource.def) = "yes"
                    /\ TypeOf(cparams[1].resource.id) \in freeze))
              => cfile[1].rev = cgen[1].rev

\* a generator of a frozen type made ready over a stored revision 0 with an
\* incompatible definition passed at revision 1: the generator serves
\* revision 1, resource.json says 0
C30_StaleRevisionOnDisk ==
    /\ cgen # None
    /\ cgen[1].ready
    /\ ~cparams[1].system
    /\ cparams[1].file = [def |-> DefBase, rev |-> 0]
    /\ cparams[1].resource.def = DefOther
    /\ cparams[1].resource.rev = 1
    /\ TypeOf(cparams[1].resource.id) \in freeze
    /\ cgen[1].rev = 1
    /\ cfile[1].rev = 0

(***************************************************************************)
(* The registry again: lock_ and the stop of a pass.                       *)
(***************************************************************************)

\* update() between idx.begin() and the end of its tail loops: the updater
\* reads serving_ through iserving and does not hold lock_
UnlockedIteration == pc = "walk"

\* C27: every read and every write of the serving set that can run while
\* another registry thread runs holds lock_: the merge-walk of the updater
\* never iterates the set while a preparation worker erases from it or
\* replaces in it.
C27_WalkExcludesWriters == [][UnlockedIteration => serving' = serving]_vars

\* the updater is in its merge-walk, the iterator at a system generator
\* whose preparation is still posted: the worker may erase it now
C27_WriterDuringWalk ==
    /\ UnlockedIteration
    /\ running
    /\ CurSrv # NoGen
    /\ CurSrv \in tasks
    /\ CurSrv \in serving

\* the updater thread took the step
UpdaterStepped == <<pc, npass, walkVars>>' # <<pc, npass, walkVars>>

\* the walk has resources or generators left
WalkLeft == CurRes # End \/ CurSrvId # End

\* C28 as stated: a pass stopped while it is diffing aborts; it never
\* finishes the diff and goes on to add, remove and replace.
C28_StoppedPassAborts ==
    [][(pc = "walk" /\ ~running /\ WalkLeft /\ UpdaterStepped)
         => ~(pc' = "walk" /\ CurRes' = End /\ CurSrvId' = End)]_vars

\* C28: a pass stopped while it is diffing aborts at its next add or
\* replace step, if the walk comes to one; no step of the updater from the
\* load to the abort changes the serving set, the ready flag or lastUpdate_.
C28_AbortFrame ==
    [][/\ (pc = "walk" /\ ~running /\ UpdaterStepped
             /\ (AtNew \/ (AtExisting /\ WantsReplace)))
          => (pc' = "pred" /\ outcome' = "aborted")
       /\ (pc \in {"load", "walk"} /\ pc' \in {"walk", "pred"}
             /\ UpdaterStepped)
          => UNCHANGED <<serving, ready, lastUpdate>>]_vars

\* the first pass was aborted by a stop: the registry is not ready and
\* lastUpdate_ is still 0
C28_Witness ==
    /\ life = "stopped"
    /\ outcome = "aborted"
    /\ npass = 1
    /\ pc = "pred"
    /\ ~ready
    /\ lastUpdate = 0
    /\ serving = SysIds

(***************************************************************************)
(* calipers (calipers/main.cpp).                                           *)
(*                                                                         *)
(* One run: the type of the dataset, then one iteration of the parallel    *)
(* loop per node of the reference frame, each sampling, refining and       *)
(* printing its line.  A node sees of the dataset what lies left of a      *)
(* boundary; coordinates of the dataset are counted in the smallest blocks *)
(* the refinement is followed to.                                          *)
(***************************************************************************)
notCal == <<regVars, poolVars, defVars, metaVars, ctorVars, surfVars, idxVars>>

\* math::Size2 steps(255, 255), scaled down
Steps == 2
\* levels of halving the refinement is followed to
MaxDepth == 2
\* nodes of the reference frame (vts::NodeInfo::nodes)
NumNodes == 2

\* vr::BoundLayer::tileSize(), width and height
TileSize == 256
\* EXIT_SUCCESS
EXIT_SUCCESS == 0

CalNodes == 1 .. NumNodes

RECURSIVE Pow2(_)
Pow2(n) == IF n = 0 THEN 1 ELSE 2 * Pow2(n - 1)

\* the side of a block of the coarse grid
Cell == Pow2(MaxDepth)

\* ds.bands, ds.dataType and the forced type of the command line
BandCounts == 1 .. 3
DataTypes == {"GDT_Byte", "GDT_Float32"}
DatasetTypes == {"dem", "ophoto"}

\* ds.size
DsSizes == {[width |-> 200, height |-> 200], [width |-> 200, height |-> 600]}
\* tileFractionLimit_ and demToOphotoScale_
Tfls == {1, 4, 32}
DemToOphotoScales == {3}

\* the nodes of a reference frame as a dataset meets them.  boundary is
\* where the node ends in the dataset: before it, inside the first column
\* of blocks, or beyond it.  fit is the best LOD of the node: found, none
\* (no valid quadrilateral with a LOD that is not negative, as in a node
\* without a valid point), or found and not compatible with the node
NodeKinds ==
    {[boundary |-> 0, fit |-> "noLod"],
     [boundary |-> Cell - 1, fit |-> "ok"],
     [boundary |-> Cell - 1, fit |-> "incompatible"],
     [boundary |-> Steps * Cell + 1, fit |-> "ok"]}

\* detectType, the forced type winning over the bands
detectTypeBandsOnly(ds, forcedType) ==
    IF ds.bands >= 3 THEN [thrown |-> "none", value |-> "ophoto"]
    ELSE IF ds.bands # 1
      THEN [thrown |-> "runtime_error", value |-> "none"]
    ELSE IF ds.dataType = "GDT_Byte"
      THEN [thrown |-> "none", value |-> "ophoto"]
    ELSE [thrown |-> "none", value |-> "dem"]

\* detectType(ds, forcedType)
detectType(ds, forcedType) ==
    IF forcedType # None THEN [thrown |-> "none", value |-> forcedType[1]]
    ELSE IF ds.bands >= 3 THEN [thrown |-> "none", value |-> "ophoto"]
    ELSE IF ds.bands # 1
      THEN [thrown |-> "runtime_error", value |-> "none"]
    ELSE IF ds.dataType = "GDT_Byte"
      THEN [thrown |-> "none", value |-> "ophoto"]
    ELSE [thrown |-> "none", value |-> "dem"]

\* Node::convert(x, y): the point converts and is inside the node
Inside(nd, x, y) == x < nd.boundary

\* partial(const OptCorners &c)
partial(c) ==
    LET sum == Cardinality({k \in 1 .. 4 : c[k]})
    IN  sum > 0 /\ sum < 4

\* blockPxSize.width < sourceBlockLimit.width and the same of the heights,
\* at depth d: blockPxSize is stepInPixels halved d times, sourceBlockLimit
\* is tileSize / (invGsdScale * tileFractionLimit), st the product
TooLittleSource(d, nd, st) ==
    /\ calIn[1].size.width * st < TileSize * Steps * Pow2(d)
    /\ calIn[1].size.height * st < TileSize * Steps * Pow2(d)

\* what a refinement did: blocks divided, the rightmost point converted
\* into the node, and whether it was cut at MaxDepth
Nothing == [divided |-> 0, hi |-> -1, capped |-> FALSE]

Both(a, b) ==
    [divided |-> a.divided + b.divided,
     hi |-> Max(a.hi, b.hi),
     capped |-> a.capped \/ b.capped]

\* divideBorderBlock, never finding too little source
RECURSIVE Node_divideBorderBlockAlways(_, _, _, _, _)
Node_divideBorderBlockAlways(d, e, c, nd, st) ==
    IF d = MaxDepth THEN [Nothing EXCEPT !.capped = TRUE]
    ELSE
      LET ecx == (e.llx + e.urx) \div 2
          ecy == (e.lly + e.ury) \div 2
          center == Inside(nd, ecx, ecy)
          left == Inside(nd, e.llx, ecy)
          right == Inside(nd, e.urx, ecy)
          lower == Inside(nd, ecx, e.lly)
          upper == Inside(nd, ecx, e.ury)
          Sub(cc, ee) ==
              IF partial(cc)
                THEN Node_divideBorderBlockAlways(d + 1, ee, cc, nd, st)
                ELSE Nothing
      IN  Both(
            [divided |-> 1,
             hi |-> IF right THEN e.urx
                    ELSE IF center \/ lower \/ upper THEN ecx
                    ELSE IF left THEN e.llx ELSE -1,
             capped |-> FALSE],
            Both(
              Both(Sub(<<c[1], left, center, lower>>,
                       [llx |-> e.llx, lly |-> e.lly,
                        urx |-> ecx, ury |-> ecy]),
                   Sub(<<left, c[2], upper, center>>,
                       [llx |-> e.llx, lly |-> ecy,
                        urx |-> ecx, ury |-> e.ury])),
              Both(Sub(<<center, upper, c[3], right>>,
                       [llx |-> ecx, lly |-> ecy,
                        urx |-> e.urx, ury |-> e.ury]),
                   Sub(<<lower, center, right, c[4]>>,
                       [llx |-> ecx, lly |-> e.lly,
                        urx |-> e.urx, ury |-> ecy]))))

\* Node::divideBorderBlock(blockPxSize, extents, corners) at depth d
RECURSIVE Node_divideBorderBlock(_, _, _, _, _)
Node_divideBorderBlock(d, e, c, nd, st) ==
    IF TooLittleSource(d, nd, st) THEN Nothing
    ELSE IF d = MaxDepth THEN [Nothing EXCEPT !.capped = TRUE]
    ELSE
      LET ecx == (e.llx + e.urx) \div 2
          ecy == (e.lly + e.ury) \div 2
          center == Inside(nd, ecx, ecy)
          left == Inside(nd, e.llx, ecy)
          right == Inside(nd, e.urx, ecy)
          lower == Inside(nd, ecx, e.lly)
          upper == Inside(nd, ecx, e.ury)
          Sub(cc, ee) ==
              IF partial(cc)
                THEN Node_divideBorderBlock(d + 1, ee, cc, nd, st)
                ELSE Nothing
      IN  Both(
            [divided |-> 1,
             hi |-> IF right THEN e.urx
                    ELSE IF center \/ lower \/ upper THEN ecx
                    ELSE IF left THEN e.llx ELSE -1,
             capped |-> FALSE],
            Both(
              Both(Sub(<<c[1], left, center, lower>>,
                       [llx |-> e.llx, lly |-> e.lly,
                        urx |-> ecx, ury |-> ecy]),
                   Sub(<<left, c[2], upper, center>>,
                       [llx |-> e.llx, lly |-> ecy,
                        urx |-> ecx, ury |-> e.ury])),
              Both(Sub(<<center, upper, c[3], right>>,
                       [llx |-> ecx, lly |-> ecy,
                        urx |-> e.urx, ury |-> e.ury]),
                   Sub(<<lower, center, right, c[4]>>,
                       [llx |-> ecx, lly |-> e.lly,
                        urx |-> e.urx, ury |-> ecy]))))

\* the points of the coarse grid, and grid(j, i) after Node::sample
GridPoints == (0 .. Steps) \X (0 .. Steps)
GridValid(nd, j, i) == Inside(nd, i * Cell, j * Cell)

\* Node::run, refining before it looks at what Node::sample answered
Node_runRefineFirst(nd, invGsdScale, tileFractionLimit) ==
    [result |-> nd.fit = "ok", refined |-> TRUE, divided |-> 0,
     capped |-> FALSE, localExtents |-> -1]

\* Node::sample: false without a best LOD (no valid point of the grid gives
\* one) and false when the lowest child is not compatible
Node_sample(nd) ==
    IF \A g \in GridPoints : ~GridValid(nd, g[1], g[2]) THEN FALSE
    ELSE IF nd.fit = "noLod" THEN FALSE
    ELSE nd.fit = "ok"

\* localExtents after Node::sample: every valid point of the grid
SampledExtent(nd) ==
    LET xs == {g[2] * Cell : g \in {h \in GridPoints :
                                      GridValid(nd, h[1], h[2])}}
    IN  IF xs = {} THEN -1 ELSE CHOOSE x \in xs : \A y \in xs : y <= x

\* Node::refine: the loops over the blocks of the grid
Node_refine(nd, st) ==
    LET RECURSIVE RefineFrom(_, _, _)
        RefineFrom(j, i, acc) ==
            IF j > Steps THEN acc
            ELSE IF i > Steps THEN RefineFrom(j + 1, 1, acc)
            ELSE
              LET ppx == GridValid(nd, j - 1, i - 1)
                  pcx == GridValid(nd, j, i - 1)
                  px == GridValid(nd, j - 1, i)
                  cx == GridValid(nd, j, i)
                  corners == <<ppx, pcx, cx, px>>
                  be == [llx |-> (i - 1) * Cell, lly |-> (j - 1) * Cell,
                         urx |-> i * Cell, ury |-> j * Cell]
              IN  RefineFrom(j, i + 1,
                        IF partial(corners)
                          THEN Both(acc, Node_divideBorderBlock(
                                           0, be, corners, nd, st))
                          ELSE acc)
    IN  RefineFrom(1, 1, Nothing)

\* Node::run(invGsdScale, tileFractionLimit): sample, then refine and minLod
Node_run(nd, invGsdScale, tileFractionLimit) ==
    IF Node_sample(nd)
      THEN LET r == Node_refine(nd, invGsdScale * tileFractionLimit)
           IN  [result |-> TRUE, refined |-> TRUE, divided |-> r.divided,
                capped |-> r.capped,
                localExtents |-> Max(SampledExtent(nd), r.hi)]
      ELSE [result |-> FALSE, refined |-> FALSE, divided |-> 0,
            capped |-> FALSE, localExtents |-> SampledExtent(nd)]

\* invGsdScale
InvGsdScale == IF dsType = Some("dem") THEN calIn[1].demToOphotoScale ELSE 1

\* the command line and what it names: the dataset, the options and the
\* nodes of the reference frame
CalInputs ==
    [bands : BandCounts, dataType : DataTypes,
     forcedType : Optional(DatasetTypes),
     tileFractionLimit : Tfls, demToOphotoScale : DemToOphotoScales,
     size : DsSizes,
     nodes : [CalNodes -> NodeKinds]]

\* the pieces one iteration writes of its line, in order
Fragments == <<"head", "nl">>
AfterFragment(f) == IF f = "head" THEN "nl" ELSE "done"

CalInit ==
    /\ RegistryParked
    /\ PoolParked
    /\ DefParked
    /\ MetaParked
    /\ CtorParked
    /\ SurfParked
    /\ IdxParked
    /\ calIn \in {Some(c) : c \in CalInputs}
    /\ calPc = "detect"
    /\ dsType = None
    /\ nodeSt = [n \in CalNodes |-> [pc |-> "todo", res |-> None]]
    /\ stdout = <<>>
    /\ exitCode = None

\* const auto datasetType(detectType(ds, datasetType_)); what it throws
\* ends the program
DetectType ==
    /\ calPc = "detect"
    /\ LET r == detectType(calIn[1], calIn[1].forcedType)
       IN  IF r.thrown # "none"
             THEN /\ calPc' = "failed"
                  /\ exitCode' = Some(EXIT_FAILURE)
                  /\ dsType' = dsType
             ELSE /\ calPc' = "gsd"
                  /\ dsType' = Some(r.value)
                  /\ exitCode' = exitCode
    /\ UNCHANGED <<calIn, nodeSt, stdout>>
    /\ UNCHANGED notCal

\* std::cout << "gsd: " << gsd << "\n"
ComputeGsd ==
    /\ calPc = "gsd"
    /\ stdout' = Append(stdout, <<0, "gsd">>)
    /\ calPc' = "nodes"
    /\ UNCHANGED <<calIn, dsType, nodeSt, exitCode>>
    /\ UNCHANGED notCal

\* one iteration of the parallel loop up to the answer of node.run
NodeRun(n) ==
    /\ calPc = "nodes"
    /\ nodeSt[n].pc = "todo"
    /\ LET r == Node_run(calIn[1].nodes[n], InvGsdScale,
                         calIn[1].tileFractionLimit)
       IN  nodeSt' = [nodeSt EXCEPT ![n] =
                        [pc |-> IF r.result THEN "head" ELSE "done",
                         res |-> Some(r)]]
    /\ UNCHANGED <<calIn, calPc, dsType, stdout, exitCode>>
    /\ UNCHANGED notCal

\* one of the writes to std::cout of an iteration
Write(n) ==
    /\ calPc = "nodes"
    /\ nodeSt[n].pc \in Range(Fragments)
    /\ stdout' = Append(stdout, <<n, nodeSt[n].pc>>)
    /\ nodeSt' = [nodeSt EXCEPT ![n].pc = AfterFragment(nodeSt[n].pc)]
    /\ UNCHANGED <<calIn, calPc, dsType, exitCode>>
    /\ UNCHANGED notCal

\* return EXIT_SUCCESS, after the loop
CalipersReturn ==
    /\ calPc = "nodes"
    /\ \A n \in CalNodes : nodeSt[n].pc = "done"
    /\ calPc' = "done"
    /\ exitCode' = Some(EXIT_SUCCESS)
    /\ UNCHANGED <<calIn, dsType, nodeSt, stdout>>
    /\ UNCHANGED notCal

CalNext ==
    \/ DetectType
    \/ ComputeGsd
    \/ \E n \in CalNodes : NodeRun(n)
    \/ \E n \in CalNodes : Write(n)
    \/ CalipersReturn

CalSpec == CalInit /\ [][CalNext]_vars

\* C23: with no forced type three or more bands give ophoto, one band of
\* bytes gives ophoto, one band of anything else gives dem, any other number
\* of bands ends the program with a failure; a forced type is the type.
C23_DetectType ==
    calPc # "detect" =>
      LET ds == calIn[1]
      IN  IF ds.forcedType # None
            THEN calPc # "failed" /\ dsType = ds.forcedType
          ELSE IF ds.bands >= 3
            THEN calPc # "failed" /\ dsType = Some("ophoto")
          ELSE IF ds.bands = 1 /\ ds.dataType = "GDT_Byte"
            THEN calPc # "failed" /\ dsType = Some("ophoto")
          ELSE IF ds.bands = 1
            THEN calPc # "failed" /\ dsType = Some("dem")
          ELSE calPc = "failed" /\ dsType = None

\* a dataset of one band that is not of bytes, its type not forced, found
\* to be a dem
C23_Witness ==
    /\ calPc = "gsd"
    /\ calIn[1].forcedType = None
    /\ calIn[1].bands = 1
    /\ calIn[1].dataType # "GDT_Byte"
    /\ dsType = Some("dem")

\* a dataset of two bands, its type forced, passing as what was forced
C23_WitnessForced ==
    /\ calPc = "gsd"
    /\ calIn[1].forcedType = Some("dem")
    /\ calIn[1].bands = 2
    /\ dsType = Some("dem")

\* a dataset of two bands and no forced type ending the program
C23_WitnessFatal ==
    /\ calPc = "failed"
    /\ calIn[1].forcedType = None
    /\ calIn[1].bands = 2

\* no point of the coarse grid converts into the node
NoValidPoint(n) ==
    \A g \in GridPoints : ~GridValid(calIn[1].nodes[n], g[1], g[2])

\* the nodes whose iteration wrote something
Writers == {stdout[k][1] : k \in DOMAIN stdout}

\* C24: a node into which no point of the coarse grid converts has
\* Node::run answer false without refining, writes nothing and raises
\* nothing, and the run ends with EXIT_SUCCESS.
C24_NoValidPointNoLine ==
    \A n \in CalNodes :
      (NoValidPoint(n) /\ nodeSt[n].res # None) =>
        /\ ~nodeSt[n].res[1].result
        /\ ~nodeSt[n].res[1].refined
        /\ nodeSt[n].pc = "done"
        /\ n \notin Writers
        /\ calPc \in {"nodes", "done"}
        /\ calPc = "done" => exitCode = Some(EXIT_SUCCESS)

\* a finished run over a node without a valid point that wrote nothing and
\* a node that printed its line
C24_Witness ==
    /\ calPc = "done"
    /\ exitCode = Some(EXIT_SUCCESS)
    /\ \E n \in CalNodes :
         /\ NoValidPoint(n)
         /\ nodeSt[n].res # None
         /\ n \notin Writers
    /\ \E n \in CalNodes : n \in Writers

\* the node has a border block: a block of the coarse grid with one to
\* three valid corners
HasBorder(nd) ==
    \E j \in 1 .. Steps, i \in 1 .. Steps :
      partial(<<GridValid(nd, j - 1, i - 1), GridValid(nd, j, i - 1),
                GridValid(nd, j, i), GridValid(nd, j - 1, i)>>)

\* the nodes that were refined
Refined == {n \in CalNodes : nodeSt[n].res # None /\ nodeSt[n].res[1].refined}

LargestTfl == CHOOSE t \in Tfls : \A u \in Tfls : u <= t
SmallestTfl == CHOOSE t \in Tfls : \A u \in Tfls : t <= u

\* C25 as stated: under the largest tileFractionLimit no border block is
\* subdivided.
C25_LargeLimitNoSubdivision ==
    \A n \in Refined :
      calIn[1].tileFractionLimit = LargestTfl =>
        nodeSt[n].res[1].divided = 0

\* C25: a refined node has no block subdivided exactly when it has no
\* border block or a block of the coarse grid is below
\* tileSize / (invGsdScale * tileFractionLimit) source pixels in both
\* dimensions; and no smaller tileFractionLimit subdivides more blocks, so
\* it is towards zero that the refinement ends after the coarse sampling.
C25_SubdividedIffEnoughSource ==
    \A n \in Refined :
      LET nd == calIn[1].nodes[n]
          st == InvGsdScale * calIn[1].tileFractionLimit
      IN  /\ nodeSt[n].res[1].divided = 0
               <=> (~HasBorder(nd) \/ TooLittleSource(0, nd, st))
          /\ \A t \in Tfls :
               (nodeSt[n].pc = "head" /\ t < calIn[1].tileFractionLimit) =>
                 Node_refine(nd, InvGsdScale * t).divided
                   <= nodeSt[n].res[1].divided

\* a node with a border block refined under the smallest
\* tileFractionLimit, no block subdivided
C25_Witness ==
    \E n \in Refined :
      /\ HasBorder(calIn[1].nodes[n])
      /\ calIn[1].tileFractionLimit = SmallestTfl
      /\ nodeSt[n].res[1].divided = 0

\* a node with a border block refined under the largest tileFractionLimit,
\* its blocks subdivided as far as the refinement is followed
C25_DeepUnderLargeLimit ==
    \E n \in Refined :
      /\ HasBorder(calIn[1].nodes[n])
      /\ calIn[1].tileFractionLimit = LargestTfl
      /\ nodeSt[n].res[1].divided > 1
      /\ nodeSt[n].res[1].capped

\* what the loop prints when its iterations run one after another in the
\* order of the nodes
RECURSIVE LinesFrom(_)
LinesFrom(n) ==
    IF n > NumNodes THEN <<>>
    ELSE (IF nodeSt[n].res[1].result
            THEN [k \in 1 .. Len(Fragments) |-> <<n, Fragments[k]>>]
            ELSE <<>>) \o LinesFrom(n + 1)

SequentialOutput == <<<<0, "gsd">>>> \o LinesFrom(1)

\* C26: the output of a finished run is the one output its dataset and
\* reference frame determine, whatever the interleaving of the iterations
\* of the loop.
C26_OutputDeterminate ==
    calPc = "done" => stdout = SequentialOutput

\* a finished run whose output is that of the sequential loop
C26_SequentialRun ==
    /\ calPc = "done"
    /\ Cardinality(Writers \ {0}) > 1
    /\ stdout = SequentialOutput

\* a finished run with the pieces of one line between those of another
C26_TornLine ==
    /\ calPc = "done"
    /\ \E k \in 1 .. Len(stdout) - 1 :
         /\ stdout[k][2] = "head"
         /\ stdout[k + 1][1] # stdout[k][1]

\* a block of the coarse grid is below
\* tileSize / (invGsdScale * tileFractionLimit) source pixels in width or in
\* height
BelowInEither(st) ==
    \/ calIn[1].size.width * st < TileSize * Steps
    \/ calIn[1].size.height * st < TileSize * Steps

\* C31: a block whose span in source pixels is below
\* tileSize / (invGsdScale * tileFractionLimit) in width or in height is not
\* subdivided; stated of the blocks of the coarse grid, the first the
\* refinement meets.
C31_StopsBelowInEither ==
    \A n \in Refined :
      BelowInEither(InvGsdScale * calIn[1].tileFractionLimit) =>
        nodeSt[n].res[1].divided = 0

\* a border block narrower than the limit and taller than it, subdivided
C31_DividedThoughNarrow ==
    \E n \in Refined :
      /\ BelowInEither(InvGsdScale * calIn[1].tileFractionLimit)
      /\ calIn[1].size.width < calIn[1].size.height
      /\ nodeSt[n].res[1].divided > 0

\* the loops over the tiles of a block, where its metanodes are stored
InTiles(p) == p \in {"tile", "utile", "store"}

\* C32: metatileFromDem enters the loop over the tiles of a block, where
\* the metanodes of the block are stored, only past a sink.checkAborted()
\* that did not throw: never on an aborted request.
C32_PolledBeforeNodes ==
    [][(~InTiles(mpc) /\ InTiles(mpc')) => ~sinkAborted]_vars

\* C32 of the productive blocks alone, which are warped
C32_PolledAfterWarp ==
    [][(~InTiles(mpc) /\ mpc' = "tile") => ~sinkAborted]_vars

\* an aborted request about to store the first metanode of an unproductive
\* block that is not the first block
C32_UnproductiveUnpolled ==
    /\ sinkAborted
    /\ mpc = "store"
    /\ bi > 1
    /\ tile = 0
    /\ ~mblocks[bi].productive

(***************************************************************************)
(* SurfaceBase::generateFile_impl (generator/surface.cpp).                 *)
(*                                                                         *)
(* One file request: generateFile_impl answers at once through the sink or *)
(* returns a Task, which an I/O worker runs later with the same sink.      *)
(***************************************************************************)
notSurf == <<regVars, poolVars, defVars, metaVars, ctorVars, calVars,
            idxVars>>

\* SurfaceFileInfo: type, fileType, flavor and tileType
SurfaceTypes ==
    {"unknown", "definition", "file", "tile", "support", "registry"}
FileTypes == {"config", "tileIndex", "extraConfig", "registry"}
FileFlavors == {"regular", "raw", "debug"}
TileFiles ==
    {"meta", "mesh", "atlas", "navtile", "meta2d", "mask", "ortho",
     "credits"}

SurfaceFileInfos ==
    [type : SurfaceTypes, fileType : FileTypes, flavor : FileFlavors,
     tileType : TileFiles]

\* what generateFile_impl did: its writes to the sink and the Task returned
Answer(w) == [written |-> <<w>>, task |-> None]
Deferred(t) == [written |-> <<>>, task |-> Some(t)]

\* generateFile_impl, answering a tile without internal texture and
\* deferring it too
generateFile_implAtlasDeferred(fi) ==
    IF fi.type = "tile" /\ fi.tileType \in {"atlas", "ortho"}
      THEN [written |-> <<"error">>, task |-> Some("generateMesh")]
    ELSE IF fi.type = "tile" THEN Deferred("generateMesh")
    ELSE Answer("content")

\* SurfaceBase::generateFile_impl(fileInfo, sink)
generateFile_impl(fi) ==
    CASE fi.type = "unknown" -> Answer("error")
      [] fi.type = "definition" -> Answer("content")
      [] fi.type = "file" ->
           (CASE fi.fileType = "config" -> Answer("content")
              [] fi.fileType = "tileIndex" -> Answer("content")
              [] fi.fileType = "registry" -> Answer("content")
              [] OTHER -> Answer("error"))
      [] fi.type = "tile" ->
           (CASE fi.tileType = "meta" ->
                   Deferred(IF fi.flavor = "debug"
                              THEN "generateDebugNode"
                              ELSE "generateMetatile")
              [] fi.tileType = "mesh" -> Deferred("generateMesh")
              [] fi.tileType = "atlas" -> Answer("error")
              [] fi.tileType = "navtile" -> Deferred("generateNavtile")
              [] fi.tileType = "meta2d" -> Deferred("generate2dMetatile")
              [] fi.tileType = "mask" -> Deferred("generate2dMask")
              [] fi.tileType = "ortho" -> Answer("error")
              [] fi.tileType = "credits" -> Deferred("generateCredits"))
      [] fi.type = "support" -> Answer("content")
      [] fi.type = "registry" -> Answer("content")
      [] OTHER -> Answer("error")

\* how a run of the task can end: a content or an error written to the
\* sink, or an exception out of the task
TaskOutcomes(t) ==
    CASE t = "generateMesh" -> {"content", "raised"}
      [] t = "generate2dMask" -> {"content", "error"}
      [] t \in {"generate2dMetatile", "generateCredits",
                "generateDebugNode"} -> {"content"}
      [] OTHER -> {"content", "error", "raised"}

SurfInit ==
    /\ RegistryParked
    /\ PoolParked
    /\ DefParked
    /\ MetaParked
    /\ CtorParked
    /\ CalParked
    /\ IdxParked
    /\ surfFi \in {Some(fi) : fi \in SurfaceFileInfos}
    /\ surfPc = "request"
    /\ surfSink = <<>>
    /\ surfTask = None

\* the call of generateFile_impl
GenerateFile ==
    /\ surfPc = "request"
    /\ LET r == generateFile_impl(surfFi[1])
       IN  /\ surfSink' = surfSink \o r.written
           /\ surfTask' = r.task
    /\ surfPc' = "returned"
    /\ UNCHANGED <<surfFi, notSurf>>

\* the returned task run by an I/O worker
RunTask ==
    /\ surfPc = "returned"
    /\ surfTask # None
    /\ \E o \in TaskOutcomes(surfTask[1]) :
         IF o = "raised"
           THEN /\ surfPc' = "raised"
                /\ surfSink' = surfSink
           ELSE /\ surfPc' = "ran"
                /\ surfSink' = Append(surfSink, o)
    /\ UNCHANGED <<surfFi, surfTask, notSurf>>

SurfNext == GenerateFile \/ RunTask

SurfSpec == SurfInit /\ [][SurfNext]_vars

\* C33: when generateFile_impl has returned, either it wrote exactly one
\* response, content or error, to the sink and returned an empty Task, or
\* it wrote nothing and returned a Task that is not empty.
C33_AnswerOrTask ==
    surfPc = "returned" =>
      \/ /\ Len(surfSink) = 1
         /\ surfSink[1] \in {"content", "error"}
         /\ surfTask = None
      \/ /\ surfSink = <<>>
         /\ surfTask # None

\* a request for an atlas answered at once with an error and no Task
C33_Witness ==
    /\ surfPc = "returned"
    /\ surfFi[1].type = "tile"
    /\ surfFi[1].tileType = "atlas"
    /\ surfSink = <<"error">>
    /\ surfTask = None

\* a request for a mesh deferred to a Task with nothing written
C33_WitnessTask ==
    /\ surfPc = "returned"
    /\ surfFi[1].type = "tile"
    /\ surfFi[1].tileType = "mesh"
    /\ surfSink = <<>>
    /\ surfTask = Some("generateMesh")

(***************************************************************************)
(* Shutdown                                                                *)
(***************************************************************************)

\* C34: stop() returns: once running_ is false and the condition variable
\* was notified, the updater thread ends, so that updater_.join() returns,
\* wherever the updater stood and whatever the update period.
C34_StopReturns == (life = "stopped") ~> (pc = "done")

\* the part of C34 that the timed wait rescues: with a positive period the
\* updater ends at the latest after the period
C34_PeriodicStopReturns ==
    (life = "stopped" /\ period > 0) ~> (pc = "done")

\* stop() in updater_.join() and the updater blocked in an untimed wait
\* that nothing will end
C34_StopHangs == life = "stopped" /\ period = 0 /\ pc = "blocked"

(***************************************************************************)
(* Replacements                                                            *)
(***************************************************************************)

\* the replacements whose preparation is posted, and their originals
PendingReplacements == {g \in tasks : gens[g].replace # NoGen}

\* C35: replace(original, replacement) always finds its original in the
\* serving set: serving_.replace() is never handed the end iterator, and
\* every replacement that waits for its preparation has its original in
\* the set.
C35_OriginalPresent ==
    /\ ~ub
    /\ \A g \in PendingReplacements : gens[g].replace \in serving

\* a replacement waits for its preparation and its original, a system
\* generator whose preparation failed, is gone from the serving set
C35_OriginalErased ==
    \E g \in PendingReplacements :
      /\ gens[g].replace \notin serving
      /\ gens[g].replace \in failed
      /\ gens[gens[g].replace].system

\* replace() has run without its original
C35_ReplacedEnd == ub

\* C36: the step of a replacement whose prepare() raised reports the
\* resource id to ResourceBackend::error and leaves the serving set as it
\* was: the original keeps serving the id.
C36_FailedReplacementKeepsOriginal ==
    [][\A g \in GenIds :
         (PrepareFail(g) /\ gens[g].replace # NoGen)
           => /\ serving' = serving
              /\ IdOf(g) \in errors'
              /\ g \notin serving']_vars

\* the id of a system generator has been reported, no preparation is
\* posted, and the system generator still serves the id: the preparation
\* of a replacement of it has failed
C36_Witness ==
    /\ tasks = {}
    /\ \E g \in serving :
         /\ gens[g].system
         /\ gens[g].ready
         /\ IdOf(g) \in errors

(***************************************************************************)
(* A client that calls update() and polls updatedSince() with what it got. *)
(* Time is counted in passes: lastUpdate_ is the number of the pass that   *)
(* set it, and the time of a call lies after the end of every pass that    *)
(* has ended and before the end of the pass under way.                     *)
(***************************************************************************)

\* the updater is inside update(resourceBackend_->load())
PassUnderWay == pc \in {"walk", "add", "remove", "replace", "publish", "drain"}

\* the passes that have ended, however they ended
EndedPasses == IF PassUnderWay THEN npass - 1 ELSE npass

\* utility::usecFromEpoch() at the head of Generators::Detail::update()
Now == EndedPasses

\* Generators::Detail::update() called by the client that is followed; it
\* keeps the timestamp returned and, for the record, the number of load()
\* calls made so far
TrackedUpdate ==
    /\ running
    /\ asked = None
    /\ asked' = Some([ts |-> Now, loads |-> npass])
    /\ updateRequest' = TRUE
    /\ pc' = IF pc = "blocked" THEN "pred" ELSE pc
    /\ UNCHANGED <<life, cfgVars, gens, serving, store, ready, prepVars, ub,
                   npass, walkVars, outcome, clean, lastUpdate>>

\* a registry with a periodic updater, nothing on disk and its system
\* generators still to be prepared
AskInit ==
    /\ Init
    /\ freeze = {}
    /\ period = 1
    /\ alt = DefCosmetic
    /\ tasks = SysIds
    /\ \A i \in Ids : store[i] = NoFile

AskNext == Next \/ TrackedUpdate

AskSpec == AskInit /\ [][AskNext]_vars

\* C37: when updatedSince(ts) answers true for the ts an update() call
\* returned, a pass whose load() was called after that update() call has
\* ended.
C37_FreshPassOnly ==
    (asked # None /\ updatedSince(asked[1].ts).value)
      => EndedPasses > asked[1].loads

\* updatedSince(ts) answers true on the strength of the pass that was under
\* way when update() was called, no later load() having been made
C37_StalePassAnswers ==
    /\ asked # None
    /\ updatedSince(asked[1].ts).value
    /\ npass = asked[1].loads
    /\ lastUpdate = npass

(***************************************************************************)
(* Resources whose generator cannot be created                             *)
(***************************************************************************)

\* the step of the walk in which Generator::create threw: the add or the
\* replace lambda was called and no generator came of it
CreateFailed ==
    /\ WalkNew \/ WalkExisting
    /\ AtNew \/ WantsReplace
    /\ gens' = gens

\* C38: when Generator::create throws for a resource, the walk passes the
\* resource and goes on: the generators listed so far for addition, removal
\* and replacement stay listed, the serving set is untouched and the pass
\* is still running; and a pass in which a creation failed leaves
\* update() by returning, after which lastUpdate_ is set.
C38_CreateFailureSkips ==
    /\ [][CreateFailed =>
            /\ toAdd' = toAdd
            /\ toRemove' = toRemove
            /\ toReplace' = toReplace
            /\ incoming' = NextRes
            /\ serving' = serving
            /\ pc' = "walk"
            /\ outcome' = "running"]_vars
    /\ [][(pc = "drain" /\ ~clean /\ pc' # pc) =>
            /\ outcome' = "returned"
            /\ lastUpdate' = npass]_vars

\* the first pass has inserted, erased and replaced, no preparation has
\* failed, a creation has, and a resource that load() returned is served by
\* the generator this pass added for it
C38_Witness ==
    /\ pc = "publish"
    /\ npass = 1
    /\ running
    /\ errors = {}
    /\ ~clean
    /\ \E g \in serving : /\ IdOf(g) \in DOMAIN loaded
                          /\ ~gens[g].system


\* ---------------------------------------------------------------------
\* serving_.get<TypeIdx>() and Generators::Detail::listGroups
\* (generator/generator.cpp)
\* ---------------------------------------------------------------------

notIdx == <<regVars, poolVars, defVars, metaVars, ctorVars, calVars,
           surfVars>>

\* the groups of one reference frame, by number
NumGroups == 2

\* Resource::Id of the resources of one reference frame, two to a group:
\* <<group, id>>
IdxIds == (1 .. NumGroups) \X (1 .. 2)

\* Resource::Id::operator<, within one reference frame
IdLess(a, b) == a[1] < b[1] \/ (a[1] = b[1] /\ a[2] < b[2])

\* Resource::Generator::Type in the order of its enumeration
TypeRank(t) == IF t = "tms" THEN 0 ELSE 1

\* the ids of the generators of an index
IdxIdsOf(idx) == {idx[k].id : k \in 1 .. Len(idx)}

\* serving_.insert(generator) as TypeIdx sees it: ordered_non_unique on
\* extractTypeKey, a generator goes behind those whose key is not greater
TypeIdxInsert(idx, g) ==
    LET before == SelectSeq(idx, LAMBDA h :
                      TypeRank(h.type) <= TypeRank(g.type))
        after == SelectSeq(idx, LAMBDA h :
                      TypeRank(h.type) > TypeRank(g.type))
    IN  before \o <<g>> \o after

\* the ids of a set in the order of Resource::Id
RECURSIVE InIdOrder(_)
InIdOrder(S) ==
    IF S = {} THEN <<>>
    ELSE LET m == CHOOSE a \in S : \A b \in S : a = b \/ IdLess(a, b)
         IN  <<m>> \o InIdOrder(S \ {m})

\* the toAdd loop of update(): one insert per created resource
RECURSIVE InsertAll(_, _)
InsertAll(idx, gs) ==
    IF gs = <<>> THEN idx
    ELSE InsertAll(TypeIdxInsert(idx, Head(gs)), Tail(gs))

\* the toRemove loop of update(): one erase per removed resource
EraseAll(idx, ids) == SelectSeq(idx, LAMBDA h : h.id \notin ids)

\* listGroups: the groups of the generators of one type in index order,
\* a group pushed whenever it differs from the one pushed last
RECURSIVE Detail_listGroups(_, _, _)
Detail_listGroups(idx, type, prev) ==
    IF idx = <<>> THEN <<>>
    ELSE LET group == Head(idx).id[1]
         IN  IF Head(idx).type # type
                 THEN Detail_listGroups(Tail(idx), type, prev)
             ELSE IF group # prev
                 THEN <<group>> \o Detail_listGroups(Tail(idx), type, group)
             ELSE Detail_listGroups(Tail(idx), type, prev)

IdxInit ==
    /\ RegistryParked
    /\ PoolParked
    /\ DefParked
    /\ MetaParked
    /\ CtorParked
    /\ CalParked
    /\ SurfParked
    /\ typeIdx = <<>>
    /\ listed = None

\* one pass of update(): the resources that came are inserted in the order of
\* their ids, those that went are erased; what a client was told before the
\* pass is forgotten
UpdatePass ==
    \E came \in SUBSET (IdxIds \ IdxIdsOf(typeIdx)) :
    \E went \in SUBSET IdxIdsOf(typeIdx) :
    \E typeOf \in [IdxIds -> Types] :
        /\ came \cup went # {}
        /\ \A a \in IdxIds \ came : typeOf[a] = "tms"
        /\ LET order == InIdOrder(came)
               gs == [k \in 1 .. Len(order) |->
                         [id |-> order[k], type |-> typeOf[order[k]]]]
           IN  typeIdx' = EraseAll(InsertAll(typeIdx, gs), went)
        /\ listed' = None
        /\ UNCHANGED notIdx

\* a client calls listGroups(referenceFrame, type)
ListGroups ==
    \E type \in Types :
        /\ listed' = Some([type |-> type,
                           groups |-> Detail_listGroups(typeIdx, type, 0)])
        /\ UNCHANGED <<typeIdx>>
        /\ UNCHANGED notIdx

IdxNext ==
    \/ UpdatePass
    \/ ListGroups

IdxSpec == IdxInit /\ [][IdxNext]_vars

\* C39: after any sequence of updater passes, listGroups returns each group
\* name at most once, whatever the order in which the generators of different
\* groups were inserted.
C39_EachGroupOnce ==
    listed # None =>
        \A i, j \in 1 .. Len(listed[1].groups) :
            listed[1].groups[i] = listed[1].groups[j] => i = j

\* a listing that names group 1, group 2 and group 1 again
C39_GroupTwice ==
    /\ listed # None
    /\ listed[1].groups = <<1, 2, 1>>

====
